---- MODULE Spec2Model ----
(***************************************************************************)
(* fileAutoArrange: the scan -> dedup -> classify -> aggregate pipeline of  *)
(* src/src/fileScanner.js (FileScanner, FileClassifier) over the directory  *)
(* listing of src/src/mcpClient.js and the policy of                        *)
(* src/config/classification.json.                                          *)
(*                                                                         *)
(* A JavaScript string is modelled as the sequence of its characters (each *)
(* a one-character TLA+ string), so that toLowerCase, extname, includes    *)
(* and the rolling hash are computed character by character.  Category and *)
(* bucket labels, on which the program does no string operation, are       *)
(* TLA+ strings; the Chinese labels of the source are written in ASCII:    *)
(*   Documents = 文档类   Images = 图片类   Videos = 视频类   Audio = 音频类      *)
(*   Programs = 程序类   Archives = 压缩包   Code = 代码类   Databases = 数据库   *)
(*   Spreadsheets = 电子表格   Presentations = 演示文稿   Other = 其他类        *)
(*   Tiny = 微小   Small = 小   Medium = 中   Large = 大   Huge = 巨大           *)
(*   Unknown = 未知                                                          *)
(* Timestamps are whole days.                                              *)
(*                                                                         *)
(* The MCPClient's reads (listDirectory, getFileInfo, searchFiles) behind  *)
(* validatePath are modelled as well; the scanner is given a client whose  *)
(* path validation is off.                                                 *)
(***************************************************************************)
EXTENDS Integers, Sequences, FiniteSets, TLC

(***************************************************************************)
(* Characters and strings                                                  *)
(***************************************************************************)

\* The printable ASCII characters, code 32 to 126, in code order.
Ascii ==
  <<" ", "!", "\"", "#", "$", "%", "&", "'", "(", ")", "*", "+", ",", "-", ".", "/", "0", "1", "2", "3", "4", "5", "6", "7", "8", "9", ":", ";", "<", "=", ">", "?", "@", "A", "B", "C", "D", "E", "F", "G", "H", "I", "J", "K", "L", "M", "N", "O", "P", "Q", "R", "S", "T", "U", "V", "W", "X", "Y", "Z", "[", "\\", "]", "^", "_", "BACKTICK", "a", "b", "c", "d", "e", "f", "g", "h", "i", "j", "k", "l", "m", "n", "o", "p", "q", "r", "s", "t", "u", "v", "w", "x", "y", "z", "{", "|", "}", "~">>


\* String.prototype.charCodeAt for one character.
CharCode(ch) ==
  31 + (CHOOSE i \in 1..Len(Ascii) : Ascii[i] = ch)

\* String.prototype.toLowerCase for one character: A-Z (65..90) map to a-z.
ToLowerChar(ch) ==
  LET code == CharCode(ch)
  IN  IF code >= 65 /\ code <= 90 THEN Ascii[code + 32 - 31] ELSE ch

\* String.prototype.toLowerCase.
ToLowerCase(s) ==
  [i \in 1..Len(s) |-> ToLowerChar(s[i])]

\* String.prototype.includes: sub occurs in s as a contiguous substring.
StrIncludes(s, sub) ==
  \E i \in 0..(Len(s) - Len(sub)) : SubSeq(s, i + 1, i + Len(sub)) = sub

\* String.prototype.startsWith.
StartsWith(s, prefix) ==
  Len(s) >= Len(prefix) /\ SubSeq(s, 1, Len(prefix)) = prefix

\* Array.prototype.includes on a sequence.
ArrIncludes(arr, x) ==
  \E i \in 1..Len(arr) : arr[i] = x

\* path.extname of a file name: from the last "." to the end; empty when the
\* name has no "." or its only "." is the first character.
ExtName(name) ==
  LET dots == {i \in 1..Len(name) : name[i] = "."}
  IN  IF dots = {} THEN <<>>
      ELSE LET last == CHOOSE i \in dots : \A j \in dots : j <= i
           IN  IF last = 1 THEN <<>> ELSE SubSeq(name, last, Len(name))

\* path.join(directoryPath, file) for a normalized directory and a plain name.
PathJoin(dir, name) ==
  dir \o <<"/">> \o name

\* path.normalize on a POSIX path: runs of "/" collapse to one.
RECURSIVE PathNormalize(_)
PathNormalize(p) ==
  IF Len(p) < 2 THEN p
  ELSE IF p[1] = "/" /\ p[2] = "/" THEN PathNormalize(Tail(p))
  ELSE <<p[1]>> \o PathNormalize(Tail(p))

DecimalDigits ==
  <<"0", "1", "2", "3", "4", "5", "6", "7", "8", "9">>

\* Number to decimal string, as a template literal formats a non-negative
\* integer.
RECURSIVE Decimal(_)
Decimal(n) ==
  IF n < 10 THEN <<DecimalDigits[n + 1]>>
  ELSE Decimal(n \div 10) \o <<DecimalDigits[(n % 10) + 1]>>

Base36Digits ==
  <<"0", "1", "2", "3", "4", "5", "6", "7", "8", "9",
    "a", "b", "c", "d", "e", "f", "g", "h", "i", "j", "k", "l", "m",
    "n", "o", "p", "q", "r", "s", "t", "u", "v", "w", "x", "y", "z">>

RECURSIVE Base36Nat(_)
Base36Nat(n) ==
  IF n < 36 THEN <<Base36Digits[n + 1]>>
  ELSE Base36Nat(n \div 36) \o <<Base36Digits[(n % 36) + 1]>>

\* Number.prototype.toString(36) of a signed 32-bit integer: a "-" sign and
\* the digits of the magnitude.  The magnitude of a negative n is split as
\* 36*q + r without negating n itself.
ToString36(n) ==
  IF n >= 0 THEN Base36Nat(n)
  ELSE LET r == (36 - (n % 36)) % 36
           q == (0 - (n + r)) \div 36
       IN  <<"-">> \o (IF q = 0 THEN <<>> ELSE Base36Nat(q)) \o <<Base36Digits[r + 1]>>

(***************************************************************************)
(* The policy of config/classification.json                                *)
(***************************************************************************)

\* fileCategories, in the order of the JSON object's keys.
ShippedFileCategories ==
  << [name |-> "Documents",
      extensions |-> << <<".", "p", "d", "f">>,
                      <<".", "d", "o", "c">>,
                      <<".", "d", "o", "c", "x">>,
                      <<".", "t", "x", "t">>,
                      <<".", "r", "t", "f">>,
                      <<".", "m", "d">>,
                      <<".", "o", "d", "t">>,
                      <<".", "p", "a", "g", "e", "s">> >>],
     [name |-> "Images",
      extensions |-> << <<".", "j", "p", "g">>,
                      <<".", "j", "p", "e", "g">>,
                      <<".", "p", "n", "g">>,
                      <<".", "g", "i", "f">>,
                      <<".", "b", "m", "p">>,
                      <<".", "s", "v", "g">>,
                      <<".", "t", "i", "f", "f">>,
                      <<".", "i", "c", "o">>,
                      <<".", "w", "e", "b", "p">> >>],
     [name |-> "Videos",
      extensions |-> << <<".", "m", "p", "4">>,
                      <<".", "a", "v", "i">>,
                      <<".", "m", "k", "v">>,
                      <<".", "m", "o", "v">>,
                      <<".", "w", "m", "v">>,
                      <<".", "f", "l", "v">>,
                      <<".", "w", "e", "b", "m">>,
                      <<".", "m", "4", "v">> >>],
     [name |-> "Audio",
      extensions |-> << <<".", "m", "p", "3">>,
                      <<".", "w", "a", "v">>,
                      <<".", "f", "l", "a", "c">>,
                      <<".", "a", "a", "c">>,
                      <<".", "w", "m", "a">>,
                      <<".", "o", "g", "g">>,
                      <<".", "m", "4", "a">> >>],
     [name |-> "Programs",
      extensions |-> << <<".", "e", "x", "e">>,
                      <<".", "m", "s", "i">>,
                      <<".", "d", "m", "g">>,
                      <<".", "d", "e", "b">>,
                      <<".", "r", "p", "m">>,
                      <<".", "a", "p", "p">>,
                      <<".", "a", "p", "k">> >>],
     [name |-> "Archives",
      extensions |-> << <<".", "z", "i", "p">>,
                      <<".", "r", "a", "r">>,
                      <<".", "7", "z">>,
                      <<".", "t", "a", "r">>,
                      <<".", "g", "z">>,
                      <<".", "b", "z", "2">>,
                      <<".", "x", "z">> >>],
     [name |-> "Code",
      extensions |-> << <<".", "j", "s">>,
                      <<".", "p", "y">>,
                      <<".", "j", "a", "v", "a">>,
                      <<".", "c", "p", "p">>,
                      <<".", "c">>,
                      <<".", "c", "s">>,
                      <<".", "p", "h", "p">>,
                      <<".", "h", "t", "m", "l">>,
                      <<".", "c", "s", "s">>,
                      <<".", "j", "s", "o", "n">>,
                      <<".", "x", "m", "l">> >>],
     [name |-> "Databases",
      extensions |-> << <<".", "d", "b">>,
                      <<".", "s", "q", "l", "i", "t", "e">>,
                      <<".", "m", "d", "b">>,
                      <<".", "a", "c", "c", "d", "b">>,
                      <<".", "s", "q", "l">> >>],
     [name |-> "Spreadsheets",
      extensions |-> << <<".", "x", "l", "s", "x">>,
                      <<".", "x", "l", "s">>,
                      <<".", "c", "s", "v">>,
                      <<".", "o", "d", "s">> >>],
     [name |-> "Presentations",
      extensions |-> << <<".", "p", "p", "t", "x">>,
                      <<".", "p", "p", "t">>,
                      <<".", "o", "d", "p">>,
                      <<".", "k", "e", "y">> >>],
     [name |-> "Other",
      extensions |-> <<  >>] >>

\* sizeCategories, in the order of the JSON object's keys.
ShippedSizeCategories ==
  << [name |-> "Tiny", min |-> 0, max |-> 1024],
     [name |-> "Small", min |-> 1024, max |-> 1048576],
     [name |-> "Medium", min |-> 1048576, max |-> 104857600],
     [name |-> "Large", min |-> 104857600, max |-> 1073741824],
     [name |-> "Huge", min |-> 1073741824, max |-> -1] >>

ShippedExcludePaths ==
  << <<"C", ":", "\\", "W", "i", "n", "d", "o", "w", "s", "\\">>,
     <<"C", ":", "\\", "P", "r", "o", "g", "r", "a", "m", " ", "F", "i", "l", "e", "s", "\\">>,
     <<"C", ":", "\\", "P", "r", "o", "g", "r", "a", "m", " ", "F", "i", "l", "e", "s", " ", "(", "x", "8", "6", ")", "\\">>,
     <<"C", ":", "\\", "P", "r", "o", "g", "r", "a", "m", "D", "a", "t", "a", "\\">>,
     <<"$", "R", "e", "c", "y", "c", "l", "e", ".", "B", "i", "n">>,
     <<"S", "y", "s", "t", "e", "m", " ", "V", "o", "l", "u", "m", "e", " ", "I", "n", "f", "o", "r", "m", "a", "t", "i", "o", "n">> >>

\* The parsed configuration object (this.config) once loadConfig succeeded.
ShippedConfig ==
  [fileCategories |-> ShippedFileCategories,
   sizeCategories |-> ShippedSizeCategories,
   excludePaths   |-> ShippedExcludePaths]

\* this.config = null, the value the constructors set before loadConfig ends.
NullConfig ==
  [fileCategories |-> <<>>, sizeCategories |-> <<>>, excludePaths |-> <<>>,
   isNull |-> TRUE]

IsNull(config) ==
  "isNull" \in DOMAIN config

Other ==
  "Other"

Unknown ==
  "Unknown"

\* A truthy value that is not a string (for instance a number), in the place
\* of a string field.
NotAString ==
  <<"[number]">>

IsString(v) ==
  v # NotAString

\* undefined / null / "" in the place of a string field: falsy.
NoString ==
  <<>>

\* category: null, as getDetailedFileInfo sets it before classification.
NoCategory ==
  "null"

\* The outcome of a call that throws (a TypeError) instead of returning.
Threw ==
  "TypeError"

(***************************************************************************)
(* FileScanner: the pure helpers                                           *)
(***************************************************************************)

\* The condition of getSizeCategory's loop body.
InBucket(size, range) ==
  size >= range.min /\ (range.max = -1 \/ size <= range.max)

getSizeCategory(config, size) ==
  IF IsNull(config) THEN Unknown
  ELSE LET sizeCategories == config.sizeCategories
           hits == {i \in 1..Len(sizeCategories) : InBucket(size, sizeCategories[i])}
       IN  IF hits = {} THEN Unknown
           ELSE sizeCategories[CHOOSE i \in hits : \A j \in hits : i <= j].name

\* isRecentFile with the creation-time comparison turned around.
isRecentFileReversed(fileInfo, cutoffDate) ==
  fileInfo.createdTime <= cutoffDate \/ fileInfo.modifiedTime >= cutoffDate

isRecentFile(fileInfo, cutoffDate) ==
  fileInfo.createdTime >= cutoffDate \/ fileInfo.modifiedTime >= cutoffDate

\* shouldExcludePath comparing without toLowerCase.
shouldExcludePathCaseSensitive(config, pathStr) ==
  IF IsNull(config) THEN FALSE
  ELSE LET normalizedPath == PathNormalize(pathStr)
       IN  \E i \in 1..Len(config.excludePaths) :
             StrIncludes(normalizedPath, PathNormalize(config.excludePaths[i]))

shouldExcludePath(config, pathStr) ==
  IF IsNull(config) THEN FALSE
  ELSE LET normalizedPath == ToLowerCase(PathNormalize(pathStr))
       IN  \E i \in 1..Len(config.excludePaths) :
             StrIncludes(normalizedPath, ToLowerCase(PathNormalize(config.excludePaths[i])))

\* One round of the hash loop: hash = ((hash << 5) - hash) + char, then
\* hash & hash, that is 31*hash + char wrapped to a signed 32-bit integer.
\* The product is formed on the two 16-bit halves of hash.
HashStep(hash, char) ==
  LET lo  == (hash % 65536) * 31 + char
      hi  == (((hash \div 65536) % 65536) * 31 + (lo \div 65536)) % 65536
  IN  IF hi >= 32768 THEN (hi - 65536) * 65536 + (lo % 65536)
      ELSE hi * 65536 + (lo % 65536)

RECURSIVE HashLoop(_, _, _)
HashLoop(hashInput, i, hash) ==
  IF i > Len(hashInput) THEN hash
  ELSE HashLoop(hashInput, i + 1, HashStep(hash, CharCode(hashInput[i])))

\* `${filePath}:${stats.size}:${stats.mtime.getTime()}`
HashInput(filePath, size, mtime) ==
  filePath \o <<":">> \o Decimal(size) \o <<":">> \o Decimal(mtime)

\* calculateFileHash when fs.stat succeeds.
calculateFileHash(filePath, size, mtime) ==
  ToString36(HashLoop(HashInput(filePath, size, mtime), 1, 0))

\* calculateFileHash when fs.stat fails: Math.random().toString(36), here
\* "0." followed by one random digit.
RandomHash(digit) ==
  <<"0", ".", digit>>

\* The key without the hash: the path alone.
DedupKeyPathOnly(file) ==
  file.path

\* const key = file.hash || file.path
DedupKey(file) ==
  IF file.hash # NoString THEN file.hash ELSE file.path

RECURSIVE RemoveDuplicatesLoop(_, _)
RemoveDuplicatesLoop(files, seen) ==
  IF files = <<>> THEN <<>>
  ELSE LET file == Head(files)
           key  == DedupKey(file)
       IN  IF key \in seen THEN RemoveDuplicatesLoop(Tail(files), seen)
           ELSE <<file>> \o RemoveDuplicatesLoop(Tail(files), seen \cup {key})

\* removeDuplicates that lets every record through.
removeDuplicatesKeepsAll(files) ==
  files

removeDuplicates(files) ==
  RemoveDuplicatesLoop(files, {})

(***************************************************************************)
(* FileClassifier: classification and the statistics built from it         *)
(***************************************************************************)

\* Object.keys(this.config.fileCategories), for category names that are
\* labels (not integer-like keys): the insertion order.
CategoryNames(config) ==
  [i \in 1..Len(config.fileCategories) |-> config.fileCategories[i].name]

\* classifyFile asking the record's flags before its extension.
classifyFileFlagsFirst(config, file) ==
  IF file.isExecutable THEN "Programs"
  ELSE IF file.isArchive THEN "Archives"
  ELSE IF file.extension = NoString THEN Other
  ELSE IF ~IsString(file.extension) THEN Threw
  ELSE IF IsNull(config) THEN Threw
  ELSE LET extension == ToLowerCase(file.extension)
           fileCategories == config.fileCategories
           hits == {i \in 1..Len(fileCategories) :
                      ArrIncludes(fileCategories[i].extensions, extension)}
       IN  IF hits = {} THEN Other
           ELSE fileCategories[CHOOSE i \in hits : \A j \in hits : i <= j].name

\* classifyFile returning the last matching category instead of the first.
classifyFileLastMatch(config, file) ==
  IF file.extension = NoString THEN Other
  ELSE IF ~IsString(file.extension) THEN Threw
  ELSE IF IsNull(config) THEN Threw
  ELSE LET extension == ToLowerCase(file.extension)
           fileCategories == config.fileCategories
           hits == {i \in 1..Len(fileCategories) :
                      ArrIncludes(fileCategories[i].extensions, extension)}
       IN  IF hits = {} THEN Other
           ELSE fileCategories[CHOOSE i \in hits : \A j \in hits : j <= i].name

classifyFile(config, file) ==
  IF file.extension = NoString THEN Other
  ELSE IF ~IsString(file.extension) THEN Threw
  ELSE IF IsNull(config) THEN Threw
  ELSE LET extension == ToLowerCase(file.extension)
           fileCategories == config.fileCategories
           hits == {i \in 1..Len(fileCategories) :
                      ArrIncludes(fileCategories[i].extensions, extension)}
       IN  IF hits = {} THEN Other
           ELSE fileCategories[CHOOSE i \in hits : \A j \in hits : i <= j].name

\* /\.(jpg|jpeg|png|gif|bmp|svg|tiff|ico|webp)$/i
ImageExtensions ==
  <<<<".", "j", "p", "g">>, <<".", "j", "p", "e", "g">>, <<".", "p", "n", "g">>, <<".", "g", "i", "f">>, <<".", "b", "m", "p">>,
    <<".", "s", "v", "g">>, <<".", "t", "i", "f", "f">>, <<".", "i", "c", "o">>, <<".", "w", "e", "b", "p">>>>

\* String.prototype.endsWith.
EndsWith(s, suffix) ==
  Len(s) >= Len(suffix) /\ SubSeq(s, Len(s) - Len(suffix) + 1, Len(s)) = suffix

\* file.extension.match(the image pattern), case ignored.
MatchesImageExtension(extension) ==
  \E i \in 1..Len(ImageExtensions) : EndsWith(ToLowerCase(extension), ImageExtensions[i])

\* const mimeCategories of classifyByMimeType, in the order of its entries.
MimeCategories ==
  << [prefix |-> <<"t", "e", "x", "t", "/">>,                    category |-> "Documents"],
     [prefix |-> <<"a", "p", "p", "l", "i", "c", "a", "t", "i", "o", "n", "/", "p", "d", "f">>,          category |-> "Documents"],
     [prefix |-> <<"a", "p", "p", "l", "i", "c", "a", "t", "i", "o", "n", "/", "m", "s", "w", "o", "r", "d">>,       category |-> "Documents"],
     [prefix |-> <<"a", "p", "p", "l", "i", "c", "a", "t", "i", "o", "n", "/", "v", "n", "d", ".", "o", "p", "e", "n", "x", "m", "l">>,  category |-> "Documents"],
     [prefix |-> <<"i", "m", "a", "g", "e", "/">>,                   category |-> "Images"],
     [prefix |-> <<"v", "i", "d", "e", "o", "/">>,                   category |-> "Videos"],
     [prefix |-> <<"a", "u", "d", "i", "o", "/">>,                   category |-> "Audio"],
     [prefix |-> <<"a", "p", "p", "l", "i", "c", "a", "t", "i", "o", "n", "/", "z", "i", "p">>,          category |-> "Archives"],
     [prefix |-> <<"a", "p", "p", "l", "i", "c", "a", "t", "i", "o", "n", "/", "x", "-", "r", "a", "r">>,        category |-> "Archives"],
     [prefix |-> <<"a", "p", "p", "l", "i", "c", "a", "t", "i", "o", "n", "/", "x", "-", "7", "z">>,         category |-> "Archives"],
     [prefix |-> <<"a", "p", "p", "l", "i", "c", "a", "t", "i", "o", "n", "/", "x", "-", "m", "s", "d", "o", "w", "n", "l", "o", "a", "d">>, category |-> "Programs"] >>

\* The entries of mimeCategories whose prefix the MIME type starts with.
MimePrefixHits(mimeType) ==
  {i \in 1..Len(MimeCategories) : StartsWith(mimeType, MimeCategories[i].prefix)}

classifyByMimeType(mimeType) ==
  LET hits == MimePrefixHits(mimeType)
  IN  IF hits = {} THEN Other
      ELSE MimeCategories[CHOOSE i \in hits : \A j \in hits : i <= j].category

\* const patterns of classifyByFileName, in the order of its entries; every
\* pattern is a plain word matched anywhere in the name, case ignored.
FileNamePatterns ==
  << [category |-> "Documents",
      words |-> <<<<"r", "e", "a", "d", "m", "e">>, <<"l", "i", "c", "e", "n", "s", "e">>, <<"c", "h", "a", "n", "g", "e", "l", "o", "g">>, <<"d", "o", "c">>,
                  <<"m", "a", "n", "u", "a", "l">>>>],
     [category |-> "Code",
      words |-> <<<<"c", "o", "n", "f", "i", "g">>, <<"s", "r", "c">>, <<"l", "i", "b">>, <<"s", "c", "r", "i", "p", "t">>,
                  <<".", "m", "i", "n", ".">>>>],
     [category |-> "Programs",
      words |-> <<<<"s", "e", "t", "u", "p">>, <<"i", "n", "s", "t", "a", "l", "l">>, <<"i", "n", "s", "t", "a", "l", "l", "e", "r">>, <<"l", "a", "u", "n", "c", "h", "e", "r">>>>],
     [category |-> Other, words |-> <<>>] >>

classifyByFileName(fileName) ==
  LET hits == {i \in 1..Len(FileNamePatterns) :
                 \E w \in 1..Len(FileNamePatterns[i].words) :
                   StrIncludes(ToLowerCase(fileName), FileNamePatterns[i].words[w])}
  IN  IF hits = {} THEN Other
      ELSE FileNamePatterns[CHOOSE i \in hits : \A j \in hits : i <= j].category

\* classifyByContent: the flags, then the MIME type when the record has one,
\* else the file name.  An exception (extension.match on an extension that
\* is not a string) falls back to classifyFile, which may throw in turn.
classifyByContent(config, file) ==
  IF file.isExecutable THEN "Programs"
  ELSE IF file.isArchive THEN "Archives"
  ELSE IF file.isMedia
  THEN IF file.extension # NoString /\ ~IsString(file.extension)
       THEN classifyFile(config, file)
       ELSE IF MatchesImageExtension(file.extension) THEN "Images" ELSE "Videos"
  ELSE IF file.mimeType # NoString THEN classifyByMimeType(file.mimeType)
  ELSE classifyByFileName(file.name)

\* The loop body with a catch block that only logs: the file whose
\* classification failed is put in no category.
ClassifyStepDropsFailed(config, acc, file) ==
  IF acc.status = "threw" THEN acc
  ELSE LET category == classifyFile(config, file)
       IN  IF category # Threw /\ category \in DOMAIN acc.categories
           THEN [acc EXCEPT
                   !.categories[category] = Append(@, [file EXCEPT !.category = category]),
                   !.totalSize = @ + file.size]
           ELSE acc

\* The body of the for loop of classifyFiles on one file: the try block, and
\* the catch block when classifyFile or the push throws.  A throw inside the
\* catch block leaves the loop and makes classifyFiles reject.
ClassifyStep(config, acc, file) ==
  IF acc.status = "threw" THEN acc
  ELSE LET category == classifyFile(config, file)
       IN  IF category # Threw /\ category \in DOMAIN acc.categories
           THEN [acc EXCEPT
                   !.categories[category] = Append(@, [file EXCEPT !.category = category]),
                   !.totalSize = @ + file.size]
           ELSE IF Other \in DOMAIN acc.categories
           THEN [acc EXCEPT
                   !.categories[Other] = Append(@, [file EXCEPT !.category = Other])]
           ELSE [status |-> "threw"]

RECURSIVE ClassifyLoop(_, _, _)
ClassifyLoop(config, files, acc) ==
  IF files = <<>> THEN acc
  ELSE ClassifyLoop(config, Tail(files), ClassifyStep(config, acc, Head(files)))

\* Object.values(classificationResult.categories) spread into one list.
RECURSIVE FlattenCategories(_, _)
FlattenCategories(categories, order) ==
  IF order = <<>> THEN <<>>
  ELSE categories[Head(order)] \o FlattenCategories(categories, Tail(order))

getAllFiles(classificationResult) ==
  FlattenCategories(classificationResult.categories, classificationResult.categoryOrder)

\* The keys of hashGroups in first-insertion order.
RECURSIVE HashGroupKeys(_, _)
HashGroupKeys(allFiles, seen) ==
  IF allFiles = <<>> THEN <<>>
  ELSE LET hash == Head(allFiles).hash
       IN  IF hash = NoString \/ hash \in seen
           THEN HashGroupKeys(Tail(allFiles), seen)
           ELSE <<hash>> \o HashGroupKeys(Tail(allFiles), seen \cup {hash})

\* .slice(0, 10) of findDuplicateFiles.
MaxDuplicateGroups ==
  10

SameHash(file, hash) ==
  file.hash = hash

findDuplicateFiles(classificationResult) ==
  LET allFiles == getAllFiles(classificationResult)
      keys     == HashGroupKeys(allFiles, {})
      groups   == [i \in 1..Len(keys) |->
                     SelectSeq(allFiles, LAMBDA file : SameHash(file, keys[i]))]
      repeated == SelectSeq(groups, LAMBDA group : Len(group) > 1)
  IN  SubSeq(repeated, 1, IF Len(repeated) < MaxDuplicateGroups
                          THEN Len(repeated) ELSE MaxDuplicateGroups)

\* .slice(0, 10) of findLargestFiles, findOldestFiles and findNewestFiles.
TopFilesCount ==
  10

\* Array.prototype.sort with a comparator that is the difference of two
\* numeric keys, key(a) - key(b) (a stable sort): each element in turn is
\* put behind the last element already placed whose key is not greater.
\* Elements are [file, key] pairs.
RECURSIVE StableInsert(_, _)
StableInsert(sorted, x) ==
  IF sorted = <<>> THEN <<x>>
  ELSE LET last == sorted[Len(sorted)]
       IN  IF last.key - x.key > 0
           THEN Append(StableInsert(SubSeq(sorted, 1, Len(sorted) - 1), x), last)
           ELSE Append(sorted, x)

RECURSIVE StableSortFrom(_, _)
StableSortFrom(sorted, rest) ==
  IF rest = <<>> THEN sorted
  ELSE StableSortFrom(StableInsert(sorted, Head(rest)), Tail(rest))

\* allFiles.sort(compare).slice(0, 10), with keys[i] the key of allFiles[i].
SortAndSlice(allFiles, keys) ==
  LET sorted == StableSortFrom(<<>>, [i \in 1..Len(allFiles) |->
                                        [file |-> allFiles[i], key |-> keys[i]]])
      top    == IF Len(sorted) < TopFilesCount THEN Len(sorted) ELSE TopFilesCount
  IN  [i \in 1..top |-> sorted[i].file]

\* (a, b) => (b.size || 0) - (a.size || 0): ascending in -size.
findLargestFiles(classificationResult) ==
  LET allFiles == getAllFiles(classificationResult)
  IN  SortAndSlice(allFiles, [i \in 1..Len(allFiles) |-> 0 - allFiles[i].size])

\* (a, b) => new Date(a.createdTime) - new Date(b.createdTime)
findOldestFiles(classificationResult) ==
  LET allFiles == getAllFiles(classificationResult)
  IN  SortAndSlice(allFiles, [i \in 1..Len(allFiles) |-> allFiles[i].createdTime])

\* (a, b) => new Date(b.createdTime) - new Date(a.createdTime)
findNewestFiles(classificationResult) ==
  LET allFiles == getAllFiles(classificationResult)
  IN  SortAndSlice(allFiles, [i \in 1..Len(allFiles) |-> 0 - allFiles[i].createdTime])

\* files.reduce((sum, file) => sum + (file.size || 0), 0)
RECURSIVE SumSizes(_)
SumSizes(files) ==
  IF files = <<>> THEN 0 ELSE Head(files).size + SumSizes(Tail(files))

\* '无扩展名', the key of the records without an extension.
NoExtensionLabel ==
  <<"NoExtension">>

\* const ext = file.extension || '无扩展名'
ExtensionKey(file) ==
  IF file.extension = NoString THEN NoExtensionLabel ELSE file.extension

\* The keys of extensionStats in first-insertion order, which is the order
\* of Object.entries for keys that are not array indices.
RECURSIVE ExtensionKeys(_, _)
ExtensionKeys(allFiles, seen) ==
  IF allFiles = <<>> THEN <<>>
  ELSE LET ext == ExtensionKey(Head(allFiles))
       IN  IF ext \in seen THEN ExtensionKeys(Tail(allFiles), seen)
           ELSE <<ext>> \o ExtensionKeys(Tail(allFiles), seen \cup {ext})

\* .slice(0, 20) of analyzeExtensions.
TopExtensionsCount ==
  20

\* A comparator that sorts by rising count.
ByCountAscending(stat) ==
  stat.count

\* ([, a], [, b]) => b.count - a.count: ascending in -count.
ByCountDescending(stat) ==
  0 - stat.count

\* analyzeExtensions: the entries of the returned object in their order.
analyzeExtensions(classificationResult) ==
  LET allFiles == getAllFiles(classificationResult)
      keys     == ExtensionKeys(allFiles, {})
      stats    == [i \in 1..Len(keys) |->
                     LET files == SelectSeq(allFiles, LAMBDA file : ExtensionKey(file) = keys[i])
                     IN  [ext       |-> keys[i],
                          count     |-> Len(files),
                          totalSize |-> SumSizes(files),
                          category  |-> files[1].category]]
      sorted   == StableSortFrom(<<>>, [i \in 1..Len(stats) |->
                                          [file |-> stats[i], key |-> ByCountDescending(stats[i])]])
      top      == IF Len(sorted) < TopExtensionsCount THEN Len(sorted) ELSE TopExtensionsCount
  IN  [i \in 1..top |-> sorted[i].file]

\* Of the statistics: the extension table, the duplicate groups and the
\* three top lists.
generateStatistics(classificationResult) ==
  [extensionStats |-> analyzeExtensions(classificationResult),
   duplicateFiles |-> findDuplicateFiles(classificationResult),
   largestFiles   |-> findLargestFiles(classificationResult),
   oldestFiles    |-> findOldestFiles(classificationResult),
   newestFiles    |-> findNewestFiles(classificationResult)]

\* The quotient cut off instead of rounded.
MathFloorDiv(num, den) ==
  num \div den

\* Math.round(num / den) for num >= 0 and den > 0: the nearest integer, a
\* half going up.
MathRoundDiv(num, den) ==
  (2 * num + den) \div (2 * den)

\* ((count / totalFiles) * 100).toFixed(2), as the number of hundredths the
\* string shows ("33.33" is 3333): the nearest hundredth, a half going up.
PercentageToFixed2(count, totalFiles) ==
  (2 * count * 10000 + totalFiles) \div (2 * totalFiles)

\* generateSummary: an entry for every category that holds a file (the
\* colour and description of the entry are copied from the configuration).
generateSummary(classificationResult) ==
  LET categories == classificationResult.categories
  IN  [category \in {c \in DOMAIN categories : Len(categories[c]) > 0} |->
         LET files     == categories[category]
             totalSize == SumSizes(files)
         IN  [count       |-> Len(files),
              totalSize   |-> totalSize,
              averageSize |-> MathRoundDiv(totalSize, Len(files)),
              percentage  |-> PercentageToFixed2(Len(files), classificationResult.totalFiles)]]

\* classifyFiles: the result object, or status "threw" when the call rejects
\* (the outer catch logs and rethrows).
classifyFiles(config, files) ==
  IF IsNull(config) THEN [status |-> "threw"]
  ELSE LET names  == CategoryNames(config)
           start  == [status        |-> "returned",
                      categories    |-> [c \in {names[i] : i \in 1..Len(names)} |-> <<>>],
                      categoryOrder |-> names,
                      totalFiles    |-> Len(files),
                      totalSize     |-> 0]
           looped == ClassifyLoop(config, files, start)
       IN  IF looped.status = "threw" THEN looped
           ELSE looped @@ [summary    |-> generateSummary(looped),
                           statistics |-> generateStatistics(looped)]

\* addCustomCategory: a new category is appended; an existing name is kept.
addCustomCategory(config, categoryName, extensions) ==
  IF \E i \in 1..Len(config.fileCategories) : config.fileCategories[i].name = categoryName
  THEN config
  ELSE [config EXCEPT !.fileCategories =
          Append(@, [name |-> categoryName, extensions |-> extensions])]

(***************************************************************************)
(* The file system that is scanned                                         *)
(***************************************************************************)

\* The day of the scan (new Date()).
Now ==
  100

\* The number of nested directories "d" below the scan root /c.
ChainDepth ==
  12

\* The hand-made part of the tree: two top-level directories /r and /c.
\* Node i is TreeNodes[i]; parent 0 is the file system root "/".
\*   /r/Aa and /r/BB have equal size and times; /r/e.txt and /r/f.txt have
\*   equal size and modification time; /r/.h.txt is hidden; /r/old.PDF is
\*   older than every cutoff; /r/m.JPG is recent by modification only;
\*   /r/sub/c.exe was created exactly 7 days ago; /r/$Recycle.Bin matches an
\*   exclude entry.
TreeNodes ==
  << [name |-> <<"r">>, parent |-> 0, kind |-> "dir", size |-> 0,
      createdTime |-> Now - 20, modifiedTime |-> Now - 20],
     [name |-> <<"A", "a">>, parent |-> 1, kind |-> "file", size |-> 4096,
      createdTime |-> Now - 5, modifiedTime |-> Now - 5],
     [name |-> <<"B", "B">>, parent |-> 1, kind |-> "file", size |-> 4096,
      createdTime |-> Now - 5, modifiedTime |-> Now - 5],
     [name |-> <<"e", ".", "t", "x", "t">>, parent |-> 1, kind |-> "file", size |-> 4096,
      createdTime |-> Now - 4, modifiedTime |-> Now - 3],
     [name |-> <<"f", ".", "t", "x", "t">>, parent |-> 1, kind |-> "file", size |-> 4096,
      createdTime |-> Now - 2, modifiedTime |-> Now - 3],
     [name |-> <<".", "h", ".", "t", "x", "t">>, parent |-> 1, kind |-> "file", size |-> 10,
      createdTime |-> Now - 1, modifiedTime |-> Now - 1],
     [name |-> <<"o", "l", "d", ".", "P", "D", "F">>, parent |-> 1, kind |-> "file", size |-> 2048,
      createdTime |-> Now - 50, modifiedTime |-> Now - 40],
     [name |-> <<"m", ".", "J", "P", "G">>, parent |-> 1, kind |-> "file", size |-> 1048576,
      createdTime |-> Now - 50, modifiedTime |-> Now - 1],
     [name |-> <<"s", "u", "b">>, parent |-> 1, kind |-> "dir", size |-> 0,
      createdTime |-> Now - 20, modifiedTime |-> Now - 20],
     [name |-> <<"c", ".", "e", "x", "e">>, parent |-> 9, kind |-> "file", size |-> 1024,
      createdTime |-> Now - 7, modifiedTime |-> Now - 50],
     [name |-> <<"d", ".", "x", "y", "z">>, parent |-> 9, kind |-> "file", size |-> 0,
      createdTime |-> Now - 0, modifiedTime |-> Now - 0],
     [name |-> <<"$", "R", "E", "C", "Y", "C", "L", "E", ".", "B", "I", "N">>, parent |-> 1, kind |-> "dir", size |-> 0,
      createdTime |-> Now - 20, modifiedTime |-> Now - 20],
     [name |-> <<"x", ".", "z", "i", "p">>, parent |-> 12, kind |-> "file", size |-> 512,
      createdTime |-> Now - 1, modifiedTime |-> Now - 1],
     [name |-> <<"c">>, parent |-> 0, kind |-> "dir", size |-> 0,
      createdTime |-> Now - 20, modifiedTime |-> Now - 20],
     [name |-> <<"t", "o", "p", ".", "m", "d">>, parent |-> 14, kind |-> "file", size |-> 100,
      createdTime |-> Now - 1, modifiedTime |-> Now - 1] >>

\* The directory /c, the last but one of TreeNodes.
ChainRoot ==
  Len(TreeNodes) - 1

\* Below /c: directory number k (1..ChainDepth) is /c/d/.../d with k "d"s,
\* and each holds one recent file f.txt, which is k levels below /c.
ChainDir(k) ==
  Len(TreeNodes) + 2 * k - 1

ChainFile(k) ==
  Len(TreeNodes) + 2 * k

ChainNodes ==
  [i \in 1..(2 * ChainDepth) |->
     IF i % 2 = 1
     THEN [name |-> <<"d">>, parent |-> IF i = 1 THEN ChainRoot ELSE Len(TreeNodes) + i - 2,
           kind |-> "dir", size |-> 0,
           createdTime |-> Now - 20, modifiedTime |-> Now - 20]
     ELSE [name |-> <<"f", ".", "t", "x", "t">>, parent |-> Len(TreeNodes) + i - 1,
           kind |-> "file", size |-> 100 + i,
           createdTime |-> Now - 1, modifiedTime |-> Now - 1]]

\* Next to /r: the directory /r2 with one file; no scan path leads there.
SiblingNodes ==
  << [name |-> <<"r", "2">>, parent |-> 0, kind |-> "dir", size |-> 0,
      createdTime |-> Now - 20, modifiedTime |-> Now - 20],
     [name |-> <<"k", ".", "t", "x", "t">>,
      parent |-> Len(TreeNodes) + 2 * ChainDepth + 1, kind |-> "file", size |-> 64,
      createdTime |-> Now - 1, modifiedTime |-> Now - 1] >>

\* The directory /w with one file and the entry /w/l, which fs.stat and
\* fs.readdir resolve to /w itself (a symbolic link or junction to an
\* ancestor): /w/l, /w/l/l, ... all list the entries of /w.
CycleRoot ==
  Len(TreeNodes) + 2 * ChainDepth + Len(SiblingNodes) + 1

CycleLink ==
  CycleRoot + 2

CycleNodes ==
  << [name |-> <<"w">>, parent |-> 0, kind |-> "dir", size |-> 0,
      createdTime |-> Now - 20, modifiedTime |-> Now - 20],
     [name |-> <<"n", ".", "t", "x", "t">>, parent |-> CycleRoot, kind |-> "file", size |-> 32,
      createdTime |-> Now - 1, modifiedTime |-> Now - 1],
     [name |-> <<"l">>, parent |-> CycleRoot, kind |-> "dir", size |-> 0,
      createdTime |-> Now - 20, modifiedTime |-> Now - 20] >>

FS ==
  TreeNodes \o ChainNodes \o SiblingNodes \o CycleNodes

\* The directory an entry resolves to: itself, but for the link.
Resolve(n) ==
  IF n = CycleLink THEN CycleRoot ELSE n

NodeIds ==
  1..Len(FS)

\* The absolute paths of nodes 1..n, each the parent's path joined with the
\* name (a parent comes before its children in FS).
RECURSIVE NodePathsUpTo(_)
NodePathsUpTo(n) ==
  IF n = 0 THEN <<>>
  ELSE LET before == NodePathsUpTo(n - 1)
       IN  Append(before, IF FS[n].parent = 0 THEN <<"/">> \o FS[n].name
                          ELSE PathJoin(before[FS[n].parent], FS[n].name))

NodePaths ==
  NodePathsUpTo(Len(FS))

NodePath(n) ==
  NodePaths[n]

\* The node a path names, or 0 when nothing is there.
NodeAt(pathStr) ==
  IF \E n \in NodeIds : NodePath(n) = pathStr
  THEN CHOOSE n \in NodeIds : NodePath(n) = pathStr
  ELSE 0

\* fs.readdir: the entries of a directory, in a fixed order.
RECURSIVE ReadDirFrom(_, _)
ReadDirFrom(dir, n) ==
  IF n > Len(FS) THEN <<>>
  ELSE (IF FS[n].parent = dir THEN <<n>> ELSE <<>>) \o ReadDirFrom(dir, n + 1)

ReadDir(dir) ==
  ReadDirFrom(Resolve(dir), 1)

\* The number of directory levels between a directory and a node below it
\* (0 for a node directly in the directory), or -1 when the node is not
\* below the directory.
RECURSIVE LevelBelow(_, _)
LevelBelow(dir, n) ==
  IF FS[n].parent = 0 THEN -1
  ELSE IF FS[n].parent = dir THEN 0
  ELSE LET up == LevelBelow(dir, FS[n].parent)
       IN  IF up = -1 THEN -1 ELSE up + 1

(***************************************************************************)
(* What the scanner reads from the file system                             *)
(***************************************************************************)

\* process.env.USERNAME
UserName ==
  <<"r">>

UserNameToken ==
  <<"%", "U", "S", "E", "R", "N", "A", "M", "E", "%">>

\* pathStr.replace(/%USERNAME%/g, username)
RECURSIVE expandPath(_)
expandPath(pathStr) ==
  IF pathStr = <<>> THEN <<>>
  ELSE IF StartsWith(pathStr, UserNameToken)
  THEN UserName \o expandPath(SubSeq(pathStr, Len(UserNameToken) + 1, Len(pathStr)))
  ELSE <<Head(pathStr)>> \o expandPath(Tail(pathStr))

\* The fileInfo object listDirectory builds from one entry's stats.
FileInfo(n) ==
  [node         |-> n,
   name         |-> FS[n].name,
   path         |-> NodePath(n),
   size         |-> FS[n].size,
   isDirectory  |-> FS[n].kind = "dir",
   isFile       |-> FS[n].kind = "file",
   createdTime  |-> FS[n].createdTime,
   modifiedTime |-> FS[n].modifiedTime,
   extension    |-> ToLowerCase(ExtName(FS[n].name))]

\* The loop of listDirectory over the entries: an entry whose stat fails is
\* skipped (inner catch), and so is a hidden entry unless includeHidden.
RECURSIVE ListEntries(_, _, _)
ListEntries(entries, statFails, includeHidden) ==
  IF entries = <<>> THEN <<>>
  ELSE LET file == Head(entries)
           rest == ListEntries(Tail(entries), statFails, includeHidden)
       IN  IF file \in statFails THEN rest
           ELSE IF ~includeHidden /\ StartsWith(FS[file].name, <<".">>) THEN rest
           ELSE <<FileInfo(file)>> \o rest

\* listDirectory on a path that is a directory and can be read.
listDirectory(dir, statFails, includeHidden) ==
  ListEntries(ReadDir(dir), statFails, includeHidden)

\* listDirectory(directoryPath): the path of an entry is
\* path.join(directoryPath, file), the path the directory was reached by
\* with the entry's name.
listDirectoryAt(directoryPath, dir, statFails, includeHidden) ==
  LET fileInfos == listDirectory(dir, statFails, includeHidden)
  IN  [i \in 1..Len(fileInfos) |->
         [fileInfos[i] EXCEPT !.path = PathJoin(directoryPath, fileInfos[i].name)]]

\* const mimeMap of getMimeType.
MimeMap ==
  << [ext |-> <<".", "p", "d", "f">>,  mime |-> <<"a", "p", "p", "l", "i", "c", "a", "t", "i", "o", "n", "/", "p", "d", "f">>],
     [ext |-> <<".", "d", "o", "c">>,  mime |-> <<"a", "p", "p", "l", "i", "c", "a", "t", "i", "o", "n", "/", "m", "s", "w", "o", "r", "d">>],
     [ext |-> <<".", "d", "o", "c", "x">>, mime |-> <<"a", "p", "p", "l", "i", "c", "a", "t", "i", "o", "n", "/", "v", "n", "d", ".", "o", "p", "e", "n", "x", "m", "l", "f", "o", "r", "m", "a", "t", "s", "-", "o", "f", "f", "i", "c", "e", "d", "o", "c", "u", "m", "e", "n", "t", ".", "w", "o", "r", "d", "p", "r", "o", "c", "e", "s", "s", "i", "n", "g", "m", "l", ".", "d", "o", "c", "u", "m", "e", "n", "t">>],
     [ext |-> <<".", "t", "x", "t">>,  mime |-> <<"t", "e", "x", "t", "/", "p", "l", "a", "i", "n">>],
     [ext |-> <<".", "j", "p", "g">>,  mime |-> <<"i", "m", "a", "g", "e", "/", "j", "p", "e", "g">>],
     [ext |-> <<".", "j", "p", "e", "g">>, mime |-> <<"i", "m", "a", "g", "e", "/", "j", "p", "e", "g">>],
     [ext |-> <<".", "p", "n", "g">>,  mime |-> <<"i", "m", "a", "g", "e", "/", "p", "n", "g">>],
     [ext |-> <<".", "g", "i", "f">>,  mime |-> <<"i", "m", "a", "g", "e", "/", "g", "i", "f">>],
     [ext |-> <<".", "m", "p", "4">>,  mime |-> <<"v", "i", "d", "e", "o", "/", "m", "p", "4">>],
     [ext |-> <<".", "m", "p", "3">>,  mime |-> <<"a", "u", "d", "i", "o", "/", "m", "p", "e", "g">>],
     [ext |-> <<".", "z", "i", "p">>,  mime |-> <<"a", "p", "p", "l", "i", "c", "a", "t", "i", "o", "n", "/", "z", "i", "p">>],
     [ext |-> <<".", "e", "x", "e">>,  mime |-> <<"a", "p", "p", "l", "i", "c", "a", "t", "i", "o", "n", "/", "x", "-", "m", "s", "d", "o", "w", "n", "l", "o", "a", "d">>] >>

\* The MIME type of everything mimeMap does not list.
OctetStream ==
  <<"a", "p", "p", "l", "i", "c", "a", "t", "i", "o", "n", "/", "o", "c", "t", "e", "t", "-", "s", "t", "r", "e", "a", "m">>

\* getMimeType: mimeMap[path.extname(filePath).toLowerCase()], or the
\* default.
getMimeType(filePath) ==
  LET ext  == ToLowerCase(ExtName(filePath))
      hits == {i \in 1..Len(MimeMap) : MimeMap[i].ext = ext}
  IN  IF hits = {} THEN OctetStream ELSE MimeMap[CHOOSE i \in hits : TRUE].mime

isExecutableFile(extension) ==
  ArrIncludes(<<<<".", "e", "x", "e">>, <<".", "m", "s", "i">>, <<".", "b", "a", "t">>, <<".", "c", "m", "d">>,
                <<".", "c", "o", "m">>, <<".", "s", "c", "r">>>>, ToLowerCase(extension))

isArchiveFile(extension) ==
  ArrIncludes(<<<<".", "z", "i", "p">>, <<".", "r", "a", "r">>, <<".", "7", "z">>, <<".", "t", "a", "r">>,
                <<".", "g", "z">>, <<".", "b", "z", "2">>>>, ToLowerCase(extension))

isMediaFile(extension) ==
  ArrIncludes(<<<<".", "j", "p", "g">>, <<".", "j", "p", "e", "g">>, <<".", "p", "n", "g">>, <<".", "g", "i", "f">>,
                <<".", "m", "p", "4">>, <<".", "a", "v", "i">>, <<".", "m", "p", "3">>, <<".", "w", "a", "v">>>>,
              ToLowerCase(extension))

\* The number of clock ticks in a day (1000 * 60 * 60 * 24 milliseconds in
\* the code): times of day are told apart to this resolution.
TicksPerDay ==
  2

\* A number as a template literal formats it: a minus sign in front of a
\* negative one.
NumberToString(n) ==
  IF n < 0 THEN <<"-">> \o Decimal(0 - n) ELSE Decimal(n)

\* The labels of getRelativeAge: the two fixed words, and a number followed
\* by the word for days, weeks or months ago.
Today ==
  [number |-> NoString, unit |-> "Today"]

Yesterday ==
  [number |-> NoString, unit |-> "Yesterday"]

AgeLabel(n, unit) ==
  [number |-> NumberToString(n), unit |-> unit]

\* getRelativeAge, now being new Date() of the call; both times in ticks.
\* Math.floor rounds towards minus infinity, as \div does.
getRelativeAge(now, createdTime) ==
  LET diffMs   == now - createdTime
      diffDays == diffMs \div TicksPerDay
  IN  IF diffDays = 0 THEN Today
      ELSE IF diffDays = 1 THEN Yesterday
      ELSE IF diffDays <= 7 THEN AgeLabel(diffDays, "DaysAgo")
      ELSE IF diffDays <= 30 THEN AgeLabel(diffDays \div 7, "WeeksAgo")
      ELSE AgeLabel(diffDays \div 30, "MonthsAgo")

\* getDetailedFileInfo: the basic info plus MIME type, hash, category: null,
\* size bucket, relative age and the three flags.  root is the index of the
\* scan path the walk started from.
getDetailedFileInfo(config, basicFileInfo, hash, root) ==
  [node         |-> basicFileInfo.node,
   root         |-> root,
   name         |-> basicFileInfo.name,
   path         |-> basicFileInfo.path,
   size         |-> basicFileInfo.size,
   isDirectory  |-> basicFileInfo.isDirectory,
   isFile       |-> basicFileInfo.isFile,
   createdTime  |-> basicFileInfo.createdTime,
   modifiedTime |-> basicFileInfo.modifiedTime,
   extension    |-> basicFileInfo.extension,
   mimeType     |-> getMimeType(basicFileInfo.path),
   hash         |-> hash,
   category     |-> NoCategory,
   sizeCategory |-> getSizeCategory(config, basicFileInfo.size),
   relativeAge  |-> getRelativeAge(Now * TicksPerDay,
                                   basicFileInfo.createdTime * TicksPerDay),
   isExecutable |-> isExecutableFile(basicFileInfo.extension),
   isArchive    |-> isArchiveFile(basicFileInfo.extension),
   isMedia      |-> isMediaFile(basicFileInfo.extension)]

\* const maxDepth = 10
maxDepth ==
  10

(***************************************************************************)
(* MCPClient: path validation in front of every read                       *)
(***************************************************************************)

\* The segments of a path between its "/" characters, empty ones left out;
\* cur is the segment being read.
RECURSIVE Segments(_, _)
Segments(p, cur) ==
  IF p = <<>> THEN (IF cur = <<>> THEN <<>> ELSE <<cur>>)
  ELSE IF Head(p) = "/"
  THEN (IF cur = <<>> THEN <<>> ELSE <<cur>>) \o Segments(Tail(p), <<>>)
  ELSE Segments(Tail(p), Append(cur, Head(p)))

\* "." is dropped and ".." removes the segment before it.
RECURSIVE ResolveSegments(_, _)
ResolveSegments(segs, acc) ==
  IF segs = <<>> THEN acc
  ELSE IF Head(segs) = <<".">> THEN ResolveSegments(Tail(segs), acc)
  ELSE IF Head(segs) = <<".", ".">>
  THEN ResolveSegments(Tail(segs),
                       IF acc = <<>> THEN acc ELSE SubSeq(acc, 1, Len(acc) - 1))
  ELSE ResolveSegments(Tail(segs), Append(acc, Head(segs)))

RECURSIVE JoinSegments(_)
JoinSegments(segs) ==
  IF segs = <<>> THEN <<>>
  ELSE <<"/">> \o Head(segs) \o JoinSegments(Tail(segs))

\* path.resolve of an absolute POSIX path: no "." or ".." segment, no
\* repeated and no trailing "/"; the root is "/".
PathResolve(p) ==
  LET segs == ResolveSegments(Segments(p, <<>>), <<>>)
  IN  IF segs = <<>> THEN <<"/">> ELSE JoinSegments(segs)

\* The parsed mcp-config.json, as far as validatePath reads it.
ClientConfig(allowedDirectories, enablePathValidation) ==
  [allowedDirectories |-> allowedDirectories,
   security           |-> [enablePathValidation |-> enablePathValidation]]

\* expandEnvironmentVariables: %USERNAME% in allowedDirectories is replaced.
expandEnvironmentVariables(config) ==
  [config EXCEPT !.allowedDirectories = [i \in 1..Len(@) |-> expandPath(@[i])]]

\* validatePath: TRUE when it returns, FALSE when it throws.
validatePath(config, targetPath) ==
  IF ~config.security.enablePathValidation THEN TRUE
  ELSE LET normalizedPath == PathResolve(targetPath)
       IN  \E i \in 1..Len(config.allowedDirectories) :
             StartsWith(normalizedPath, PathResolve(config.allowedDirectories[i]))

Rejected ==
  [status |-> "rejected", listed |-> {}, read |-> {}]

\* MCPClient.listDirectory as a whole: validatePath, stat, the isDirectory
\* test and the listing; listed is the directory read, read the entries
\* whose information is returned.
listDirectoryCall(config, directoryPath, includeHidden) ==
  IF ~validatePath(config, directoryPath) THEN Rejected
  ELSE LET dir == NodeAt(PathResolve(directoryPath))
       IN  IF dir = 0 THEN Rejected
           ELSE IF FS[dir].kind # "dir" THEN Rejected
           ELSE LET fileInfos == listDirectory(dir, {}, includeHidden)
                IN  [status |-> "returned", listed |-> {dir},
                     read   |-> {fileInfos[i].node : i \in 1..Len(fileInfos)}]

\* MCPClient.getFileInfo: validatePath, then stat.
getFileInfo(config, filePath) ==
  IF ~validatePath(config, filePath) THEN Rejected
  ELSE LET n == NodeAt(PathResolve(filePath))
       IN  IF n = 0 THEN Rejected
           ELSE [status |-> "returned", listed |-> {}, read |-> {n}]

\* searchFilesRecursive: the directories it lists.  A listing that throws is
\* caught and logged; subdirectories are entered when criteria.recursive.
RECURSIVE searchFilesRecursive(_, _, _)
searchFilesRecursive(config, currentPath, recursive) ==
  LET files == listDirectoryCall(config, currentPath, FALSE)
  IN  IF files.status = "rejected" THEN {}
      ELSE files.listed \cup
           (IF recursive
            THEN UNION {searchFilesRecursive(config, NodePath(n), recursive) :
                          n \in {m \in files.read : FS[m].kind = "dir"}}
            ELSE {})

\* MCPClient.searchFiles: validatePath on the search path, then the search.
searchFiles(config, searchPath, recursive) ==
  IF ~validatePath(config, searchPath) THEN Rejected
  ELSE LET listed == searchFilesRecursive(config, searchPath, recursive)
       IN  [status |-> "returned", listed |-> listed,
            read   |-> {n \in NodeIds : FS[n].parent \in listed /\ ~StartsWith(FS[n].name, <<".">>)}]

(***************************************************************************)
(* State                                                                   *)
(***************************************************************************)

VARIABLES
  pc,               \* where the run is: "start", "roots", "walk", "scanned",
                    \* "rejected", "classified", "failed", "dedup", "size",
                    \* "sized", "client"
  days,             \* scanRecentFiles' days argument
  options,          \* the scan command's options object: its includeHidden flag
  scanPaths,        \* scanRecentFiles' customPaths argument
  rootIdx,          \* index of the scan path the for loop is at
  stack,            \* the active scanDirectory calls, innermost last
  allFiles,         \* scanRecentFiles' allFiles (removeDuplicates' input)
  uniqueFiles,      \* removeDuplicates' result (classifyFiles' input)
  faults,           \* number of file system failures so far
  failures,         \* history: <<kind, root index, node>> of every failure, kind "list"
                    \* (listDirectory threw), "stat" (an entry's stat in listDirectory
                    \* threw) or "hash" (the stat in calculateFileHash threw)
  calls,            \* history: <<root index, directory, depth>> of every scanDirectory call
  scannerConfig,    \* FileScanner.config
  scannerPromise,   \* FileScanner.configPromise: "pending", "fulfilled", "rejected"
  classifierConfig, \* FileClassifier.config
  classifierLoad,   \* FileClassifier.loadConfig(): "pending", "fulfilled", "rejected"
  result,           \* what classifyFiles returned, status "none" before
  sizeArg,          \* getSizeCategory's argument
  sizeResult,       \* getSizeCategory's result, "none" before
  age,              \* getRelativeAge's argument (in ticks) and its label
  mcp               \* the MCPClient: its config, the call made on it (op, path,
                    \* recursive), the call's status and the directories it listed

vars ==
  <<pc, days, options, scanPaths, rootIdx, stack, allFiles, uniqueFiles, faults, failures, calls,
    scannerConfig, scannerPromise, classifierConfig, classifierLoad, result,
    sizeArg, sizeResult, mcp, age>>

scanVars ==
  <<days, options, scanPaths, rootIdx, stack, allFiles, uniqueFiles, faults, failures, calls>>

\* The file system failures one run may meet.
MaxFaults ==
  1

\* The digits Math.random() may produce.
RandomDigits ==
  {"a", "b"}

\* The paths given as scan roots: /r, /r written with the user placeholder,
\* /r/sub, /c, and /nope, which does not exist.
PathR ==
  <<"/", "r">>

PathUser ==
  <<"/">> \o UserNameToken

PathSub ==
  <<"/", "r", "/", "s", "u", "b">>

PathC ==
  <<"/", "c">>

PathNope ==
  <<"/", "n", "o", "p", "e">>

RootLists ==
  { <<PathR>>, <<PathR, PathR>>, <<PathR, PathUser>>, <<PathR, PathSub>>,
    <<PathSub, PathR>>, <<PathNope, PathR>>, <<PathR, PathNope>>,
    <<PathC>>, <<PathNope>> }

DaysOptions ==
  {1, 7}

NoResult ==
  [status |-> "none"]

\* new FileScanner(mcpClient) and new FileClassifier(): config is null and
\* both loadConfig calls are in flight.
\* No call of getRelativeAge made on its own.
NoAge ==
  [createdTime |-> 0, relativeAge |-> "none"]

Constructed ==
  /\ scannerConfig = NullConfig
  /\ scannerPromise = "pending"
  /\ classifierConfig = NullConfig
  /\ classifierLoad = "pending"
  /\ result = NoResult
  /\ sizeResult = "none"
  /\ age = NoAge

\* The client before any call is made on it.
Idle(config) ==
  [config |-> config, call |-> [op |-> "none"], status |-> "idle", listed |-> {}, read |-> {}]

\* The client the scanner is given: connected, with path validation off.
ScanClient ==
  Idle(ClientConfig(<<>>, FALSE))

Init ==
  /\ Constructed
  /\ pc = "start"
  /\ days \in DaysOptions
  /\ options \in [includeHidden : BOOLEAN]
  /\ scanPaths \in RootLists
  /\ rootIdx = 0
  /\ stack = <<>>
  /\ allFiles = <<>>
  /\ uniqueFiles = <<>>
  /\ faults = 0
  /\ failures = {}
  /\ calls = {}
  /\ sizeArg = 0
  /\ mcp = ScanClient

(***************************************************************************)
(* Loading the configuration                                               *)
(***************************************************************************)

\* FileScanner.loadConfig: readFile and JSON.parse succeed.
ScannerLoadConfigOk ==
  /\ scannerPromise = "pending"
  /\ scannerConfig' = ShippedConfig
  /\ scannerPromise' = "fulfilled"
  /\ UNCHANGED <<pc, scanVars, classifierConfig, classifierLoad, result, sizeArg, mcp, sizeResult, age>>

\* FileScanner.loadConfig: the file is missing or malformed; the promise rejects.
ScannerLoadConfigFail ==
  /\ scannerPromise = "pending"
  /\ scannerPromise' = "rejected"
  /\ UNCHANGED <<pc, scanVars, scannerConfig, classifierConfig, classifierLoad, result,
                 sizeArg, mcp, sizeResult, age>>

\* FileClassifier.loadConfig succeeds.  Nothing but classifyFiles and
\* addCustomCategory reads the classifier's config, so a completion at any
\* moment up to the end of the scan is placed right after the scan: what
\* matters is whether it comes before or after classifyFiles.
ClassifierLoadConfigOk ==
  /\ classifierLoad = "pending"
  /\ pc \in {"scanned", "classified", "failed"}
  /\ classifierConfig' = ShippedConfig
  /\ classifierLoad' = "fulfilled"
  /\ UNCHANGED <<pc, scanVars, scannerConfig, scannerPromise, result, sizeArg, mcp, sizeResult, age>>

\* FileClassifier.loadConfig fails; nobody awaits the promise.
ClassifierLoadConfigFail ==
  /\ classifierLoad = "pending"
  /\ pc \in {"scanned", "classified", "failed"}
  /\ classifierLoad' = "rejected"
  /\ UNCHANGED <<pc, scanVars, scannerConfig, scannerPromise, classifierConfig, result,
                 sizeArg, mcp, sizeResult, age>>

(***************************************************************************)
(* FileScanner.scanRecentFiles and scanDirectory, step by step             *)
(***************************************************************************)

\* cutoffDate = now - days
CutoffDate ==
  Now - days

\* A call scanDirectory(dirPath, cutoffDate, depth) that has just begun;
\* dir is the directory the path leads to.
Frame(dir, dirPath, depth) ==
  [dir |-> dir, path |-> dirPath, depth |-> depth, phase |-> "enter",
   items |-> <<>>, files |-> <<>>]

Top ==
  stack[Len(stack)]

SetTop(frame) ==
  [stack EXCEPT ![Len(stack)] = frame]

\* ensureConfigLoaded that waits for the promise but ignores its rejection.
ensureConfigLoadedSwallows(config, configPromise) ==
  IF ~IsNull(config) THEN "resolved"
  ELSE IF configPromise = "pending" THEN "pending"
  ELSE "resolved"

\* await ensureConfigLoaded(): with a config it resolves at once; without,
\* it awaits configPromise, that is it stays pending while the promise is,
\* and throws the promise's rejection.
ensureConfigLoaded(config, configPromise) ==
  IF ~IsNull(config) THEN "resolved"
  ELSE IF configPromise = "pending" THEN "pending"
  ELSE IF configPromise = "rejected" THEN "rejected"
  ELSE "resolved"

\* scanRecentFiles up to the for loop: await ensureConfigLoaded(), whose
\* rejection the catch block logs and rethrows; then cutoffDate, scanPaths
\* and allFiles = [].
ScanRecentFiles_Begin ==
  /\ pc = "start"
  /\ ensureConfigLoaded(scannerConfig, scannerPromise) # "pending"
  /\ IF ensureConfigLoaded(scannerConfig, scannerPromise) = "rejected"
     THEN /\ pc' = "rejected"
          /\ UNCHANGED <<rootIdx, allFiles>>
     ELSE /\ pc' = "roots"
          /\ rootIdx' = 1
          /\ allFiles' = <<>>
  /\ UNCHANGED <<days, options, scanPaths, stack, uniqueFiles, faults, failures, calls, scannerConfig,
                 scannerPromise, classifierConfig, classifierLoad, result, sizeArg, mcp,
                 sizeResult, age>>

\* One turn of the for loop over scanPaths, up to the scanDirectory call: a
\* path that does not exist is skipped.
ScanRecentFiles_NextRoot ==
  /\ pc = "roots"
  /\ rootIdx <= Len(scanPaths)
  /\ LET expandedPath == expandPath(scanPaths[rootIdx])
         dir == NodeAt(expandedPath)
     IN  IF dir = 0
         THEN /\ rootIdx' = rootIdx + 1
              /\ UNCHANGED <<pc, stack, calls>>
         ELSE /\ pc' = "walk"
              /\ stack' = <<Frame(dir, expandedPath, 0)>>
              /\ calls' = calls \cup {<<rootIdx, dir, 0>>}
              /\ UNCHANGED rootIdx
  /\ UNCHANGED <<days, options, scanPaths, allFiles, uniqueFiles, faults, failures, scannerConfig,
                 scannerPromise, classifierConfig, classifierLoad, result, sizeArg, mcp,
                 sizeResult, age>>

\* An error of listDirectory that no catch block stops: every active
\* scanDirectory call ends with it and hands nothing to its caller.
RethrowListingError(calls_) ==
  [f \in 1..Len(calls_) |-> [calls_[f] EXCEPT !.phase = "done", !.items = <<>>, !.files = <<>>]]

\* The outer catch of scanDirectory: the error of listDirectory is logged and
\* the call goes on to "return files" with the list it has, which is empty.
CatchListingError(calls_) ==
  [calls_ EXCEPT ![Len(calls_)].phase = "done"]

\* scanDirectory from its entry to the for loop: an excluded path returns at
\* once; listDirectory either throws (caught by the outer catch, the call
\* returns its empty list) or returns the entries whose stat succeeded.
ScanDirectory_List ==
  /\ pc = "walk"
  /\ Top.phase = "enter"
  /\ IF shouldExcludePath(scannerConfig, Top.path)
     THEN /\ stack' = SetTop([Top EXCEPT !.phase = "done"])
          /\ UNCHANGED <<faults, failures>>
     ELSE \/ /\ FS[Top.dir].kind = "dir"
             /\ stack' = SetTop([Top EXCEPT !.phase = "items",
                                            !.items = listDirectoryAt(Top.path, Top.dir, {}, FALSE)])
             /\ UNCHANGED <<faults, failures>>
          \/ /\ FS[Top.dir].kind = "dir"
             /\ faults < MaxFaults
             /\ \E file \in {n \in NodeIds : FS[n].parent = Resolve(Top.dir)} :
                  /\ stack' = SetTop([Top EXCEPT !.phase = "items",
                                                 !.items = listDirectoryAt(Top.path, Top.dir,
                                                                             {file}, FALSE)])
                  /\ failures' = failures \cup {<<"stat", rootIdx, file>>}
             /\ faults' = faults + 1
          \/ /\ FS[Top.dir].kind = "dir" => faults < MaxFaults
             /\ stack' = CatchListingError(stack)
             /\ faults' = IF FS[Top.dir].kind = "dir" THEN faults + 1 ELSE faults
             /\ failures' = failures \cup {<<"list", rootIdx, Top.dir>>}
  /\ UNCHANGED <<pc, days, options, scanPaths, rootIdx, allFiles, uniqueFiles, calls,
                 scannerConfig,
                 scannerPromise, classifierConfig, classifierLoad, result, sizeArg, mcp,
                 sizeResult, age>>

\* The number of nested scanDirectory calls the run time has room for.
StackCap ==
  12

\* The test without the depth.
ShouldDescendAlways(item, depth) ==
  item.isDirectory

\* The depth test with <= in the place of <.
ShouldDescendInclusive(item, depth) ==
  item.isDirectory /\ depth <= maxDepth

\* else if (item.isDirectory && depth < maxDepth)
ShouldDescend(item, depth) ==
  item.isDirectory /\ depth < maxDepth

\* One turn of scanDirectory's for loop: a recent file gets its detailed
\* info (its hash is random when the stat inside calculateFileHash fails)
\* and is pushed; a directory is entered when depth < maxDepth (a call
\* that the run time has no room for never begins).
ScanDirectory_Item ==
  /\ pc = "walk"
  /\ Top.phase = "items"
  /\ Top.items # <<>>
  /\ LET item == Head(Top.items)
         next == [Top EXCEPT !.items = Tail(@)]
     IN  IF item.isFile
         THEN IF isRecentFile(item, CutoffDate)
              THEN \/ /\ stack' = SetTop([next EXCEPT !.files = Append(@,
                                   getDetailedFileInfo(scannerConfig, item,
                                     calculateFileHash(item.path, item.size, item.modifiedTime),
                                     rootIdx))])
                      /\ UNCHANGED <<faults, failures, calls>>
                   \/ /\ faults < MaxFaults
                      /\ \E digit \in RandomDigits :
                           stack' = SetTop([next EXCEPT !.files = Append(@,
                                   getDetailedFileInfo(scannerConfig, item,
                                     RandomHash(digit), rootIdx))])
                      /\ faults' = faults + 1
                      /\ failures' = failures \cup {<<"hash", rootIdx, item.node>>}
                      /\ UNCHANGED calls
              ELSE /\ stack' = SetTop(next)
                   /\ UNCHANGED <<faults, failures, calls>>
         ELSE IF ShouldDescend(item, Top.depth)
         THEN /\ Len(stack) < StackCap
              /\ stack' = Append(SetTop(next), Frame(item.node, item.path, Top.depth + 1))
              /\ calls' = calls \cup {<<rootIdx, item.node, Top.depth + 1>>}
              /\ UNCHANGED <<faults, failures>>
         ELSE /\ stack' = SetTop(next)
              /\ UNCHANGED <<faults, failures, calls>>
  /\ UNCHANGED <<pc, days, options, scanPaths, rootIdx, allFiles, uniqueFiles,
                 scannerConfig,
                 scannerPromise, classifierConfig, classifierLoad, result, sizeArg, mcp,
                 sizeResult, age>>

\* The returned files put in front of the list instead of behind it.
UnshiftAll(files, subFiles) ==
  subFiles \o files

\* files.push(...subFiles) and allFiles.push(...files)
PushAll(files, subFiles) ==
  files \o subFiles

\* return files: the caller pushes them onto its own list; the outermost
\* call returns to scanRecentFiles, which pushes them onto allFiles and goes
\* on to the next scan path.
ScanDirectory_Return ==
  /\ pc = "walk"
  /\ Top.phase = "done" \/ (Top.phase = "items" /\ Top.items = <<>>)
  /\ IF Len(stack) > 1
     THEN /\ stack' = [SubSeq(stack, 1, Len(stack) - 1) EXCEPT
                         ![Len(stack) - 1].files = PushAll(@, Top.files)]
          /\ UNCHANGED <<pc, rootIdx, allFiles>>
     ELSE /\ stack' = <<>>
          /\ allFiles' = PushAll(allFiles, Top.files)
          /\ rootIdx' = rootIdx + 1
          /\ pc' = "roots"
  /\ UNCHANGED <<days, options, scanPaths, uniqueFiles, faults, failures, calls, scannerConfig,
                 scannerPromise, classifierConfig, classifierLoad, result, sizeArg, mcp,
                 sizeResult, age>>

\* After the loop: removeDuplicates(allFiles) is returned.
ScanRecentFiles_Finish ==
  /\ pc = "roots"
  /\ rootIdx > Len(scanPaths)
  /\ uniqueFiles' = removeDuplicates(allFiles)
  /\ pc' = "scanned"
  /\ UNCHANGED <<days, options, scanPaths, rootIdx, stack, allFiles, faults, failures, calls, scannerConfig,
                 scannerPromise, classifierConfig, classifierLoad, result, sizeArg, mcp,
                 sizeResult, age>>

(***************************************************************************)
(* FileClassifier.classifyFiles                                            *)
(***************************************************************************)

\* execute(options) called scanRecentFiles(options.days, options.paths): of
\* the options only days and paths reach the scanner.  It passes the scan's
\* list to classifyFiles, which returns the result or rejects.
ClassifyFiles ==
  /\ pc = "scanned"
  /\ result' = classifyFiles(classifierConfig, uniqueFiles)
  /\ pc' = IF result'.status = "threw" THEN "failed" ELSE "classified"
  /\ UNCHANGED <<scanVars, scannerConfig, scannerPromise, classifierConfig,
                 classifierLoad, sizeArg, mcp, sizeResult, age>>

Next ==
  \/ ScannerLoadConfigOk
  \/ ScannerLoadConfigFail
  \/ ClassifierLoadConfigOk
  \/ ClassifierLoadConfigFail
  \/ ScanRecentFiles_Begin
  \/ ScanRecentFiles_NextRoot
  \/ ScanDirectory_List
  \/ ScanDirectory_Item
  \/ ScanDirectory_Return
  \/ ScanRecentFiles_Finish
  \/ ClassifyFiles

Spec ==
  Init /\ [][Next]_vars

(***************************************************************************)
(* The main flow on a directory structure with a cycle, every step that    *)
(* can be taken being taken in the end                                     *)
(***************************************************************************)

PathW ==
  <<"/", "w">>

\* Scan paths that lead into the cycle, alone or after a missing directory.
LiveRootLists ==
  { <<PathW>>, <<PathNope, PathW>> }

InitLive ==
  /\ Constructed
  /\ pc = "start"
  /\ days = 7
  /\ options = [includeHidden |-> FALSE]
  /\ scanPaths \in LiveRootLists
  /\ rootIdx = 0
  /\ stack = <<>>
  /\ allFiles = <<>>
  /\ uniqueFiles = <<>>
  /\ faults = 0
  /\ failures = {}
  /\ calls = {}
  /\ sizeArg = 0
  /\ mcp = ScanClient

\* The read of the scanner's configuration settles.
ConfigSettles ==
  ScannerLoadConfigOk \/ ScannerLoadConfigFail

\* A step of the innermost scanDirectory call.
WalkStep ==
  ScanDirectory_List \/ ScanDirectory_Item \/ ScanDirectory_Return

\* ENABLED <<WalkStep>>_vars written out: during a walk the innermost call
\* can list, take its next item or return, unless its next item is a
\* directory to enter and there is no room for another call.
WalkCanStep ==
  /\ pc = "walk"
  /\ (Top.phase = "items" /\ Top.items # <<>> /\ ShouldDescend(Head(Top.items), Top.depth))
       => Len(stack) < StackCap

\* WF_vars(WalkStep), with WalkCanStep for ENABLED <<WalkStep>>_vars.
WalkFairness ==
  []<>(~WalkCanStep) \/ []<><<WalkStep>>_vars

\* Every awaited operation settles (the file system answers each readFile,
\* stat and readdir) and the continuation of a settled await is run: a step
\* of the scan that stays possible is taken.
SpecLive ==
  /\ InitLive /\ [][Next]_vars
  /\ WF_vars(ConfigSettles)
  /\ WF_vars(ScanRecentFiles_Begin)
  /\ WF_vars(ScanRecentFiles_NextRoot)
  /\ WF_vars(ScanRecentFiles_Finish)
  /\ WalkFairness

(***************************************************************************)
(* The classifier called on its own: classifyFiles on any list of records, *)
(* before or after loadConfig ended, with or without custom categories     *)
(***************************************************************************)

\* The longest list of records passed to classifyFiles or removeDuplicates.
MaxFiles ==
  3

\* A record of the shape getDetailedFileInfo builds, not tied to the tree.
Record(name, extension, size, hash) ==
  [node         |-> 0,
   root         |-> 0,
   name         |-> name,
   path         |-> <<"/", "t", "/">> \o name,
   size         |-> size,
   isDirectory  |-> FALSE,
   isFile       |-> TRUE,
   createdTime  |-> Now,
   modifiedTime |-> Now,
   extension    |-> extension,
   mimeType     |-> getMimeType(name),
   hash         |-> hash,
   category     |-> NoCategory,
   sizeCategory |-> getSizeCategory(ShippedConfig, size),
   relativeAge  |-> Today,
   isExecutable |-> IsString(extension) /\ isExecutableFile(extension),
   isArchive    |-> IsString(extension) /\ isArchiveFile(extension),
   isMedia      |-> IsString(extension) /\ isMediaFile(extension)]

\* Records to classify: no extension, lower-case and upper-case known
\* extensions, an unknown extension, an extension that is not a string
\* (extension.toLowerCase throws), and a second .pdf record whose name, MIME
\* type and flags speak of a program and an image.
ClassifyInputs ==
  { Record(<<"n", "o", "t", "e", "s">>, NoString, 10, <<"1">>),
    Record(<<"a", ".", "p", "d", "f">>, <<".", "p", "d", "f">>, 2048, <<"2">>),
    Record(<<"B", ".", "P", "D", "F">>, <<".", "P", "D", "F">>, 300, <<"3">>),
    Record(<<"b", ".", "j", "p", "g">>, <<".", "j", "p", "g">>, 512000, <<"4">>),
    Record(<<"d", ".", "x", "y", "z">>, <<".", "x", "y", "z">>, 1024, <<"5">>),
    Record(<<"o", "d", "d">>, NotAString, 7, <<"6">>),
    [Record(<<"s", "e", "t", "u", "p", ".", "p", "d", "f">>, <<".", "p", "d", "f">>, 300, <<"7">>) EXCEPT
       !.mimeType = <<"i", "m", "a", "g", "e", "/", "p", "n", "g">>, !.isExecutable = TRUE] }

\* All lists of at most n elements of S.
RECURSIVE ListsUpTo(_, _)
ListsUpTo(S, n) ==
  IF n = 0 THEN {<<>>}
  ELSE LET shorter == ListsUpTo(S, n - 1)
       IN  shorter \cup {Append(l, x) : l \in {m \in shorter : Len(m) = n - 1}, x \in S}

\* The categories addCustomCategory is called with: a new name with an
\* extension Documents already lists, a new name with a new extension, and
\* a name that exists.
CustomCategories ==
  { [name |-> "Custom", extensions |-> <<<<".", "p", "d", "f">>>>],
    [name |-> "Scratch", extensions |-> <<<<".", "x", "y", "z">>, <<".", "j", "p", "g">>>>],
    [name |-> "Images", extensions |-> <<<<".", "p", "d", "f">>>>] }

InitClassify ==
  /\ Constructed
  /\ pc = "scanned"
  /\ days = 7
  /\ options = [includeHidden |-> FALSE]
  /\ scanPaths = <<>>
  /\ rootIdx = 0
  /\ stack = <<>>
  /\ allFiles = <<>>
  /\ uniqueFiles \in ListsUpTo(ClassifyInputs, MaxFiles)
  /\ faults = 0
  /\ failures = {}
  /\ calls = {}
  /\ sizeArg = 0
  /\ mcp = ScanClient

\* addCustomCategory(categoryName, categoryConfig) before classifyFiles; on
\* a null config it throws and changes nothing.
AddCustomCategory ==
  /\ pc = "scanned"
  /\ ~IsNull(classifierConfig)
  /\ \E custom \in CustomCategories :
       classifierConfig' = addCustomCategory(classifierConfig, custom.name, custom.extensions)
  /\ UNCHANGED <<pc, scanVars, scannerConfig, scannerPromise, classifierLoad, result,
                 sizeArg, mcp, sizeResult, age>>

\* The caller's records after classifyFiles returned: file.category = ...
\* wrote into the very objects of the list.
FilesAfter(files, classificationResult) ==
  LET classified == getAllFiles(classificationResult)
  IN  [i \in 1..Len(files) |->
         [files[i] EXCEPT !.category =
            classified[CHOOSE k \in 1..Len(classified) :
                         [classified[k] EXCEPT !.category = NoCategory] = files[i]].category]]

\* classifyFiles called a second time on the same list, under the same
\* configuration.
ClassifyFilesAgain ==
  /\ pc = "classified"
  /\ result' = classifyFiles(classifierConfig, FilesAfter(uniqueFiles, result))
  /\ pc' = IF result'.status = "threw" THEN "failed" ELSE "reclassified"
  /\ UNCHANGED <<scanVars, scannerConfig, scannerPromise, classifierConfig,
                 classifierLoad, sizeArg, mcp, sizeResult, age>>

NextClassify ==
  \/ ClassifierLoadConfigOk
  \/ ClassifierLoadConfigFail
  \/ AddCustomCategory
  \/ ClassifyFiles
  \/ ClassifyFilesAgain

SpecClassify ==
  InitClassify /\ [][NextClassify]_vars

(***************************************************************************)
(* classifyFiles called on lists with more extensions than extensionStats  *)
(* keeps                                                                   *)
(***************************************************************************)

\* The number of different extensions in the longest list.
DistinctExtensions ==
  22

\* The lists hold all of the first DistinctExtensions extensions or all but
\* the last ExtensionsLeftOut of them, so that extensionStats is cut in the
\* first case only.
ExtensionsLeftOut ==
  3

\* Record number k: for k up to DistinctExtensions a record with the k-th of
\* the extensions .e1, .e2, ..., which no category lists; then a record
\* without extension and a .pdf record.
ExtensionRecord(k) ==
  IF k <= DistinctExtensions
  THEN LET extension == <<".", "e", Base36Digits[k + 1]>>
       IN  Record(<<"f">> \o extension, extension, 10 + k, <<"x">> \o Decimal(k))
  ELSE IF k = DistinctExtensions + 1
  THEN Record(<<"n", "o", "t", "e", "s">>, NoString, 5, <<"y">>)
  ELSE Record(<<"a", ".", "p", "d", "f">>, <<".", "p", "d", "f">>, 2048, <<"z">>)

\* Nothing for 0, else the list of record number k alone.
Extra(k) ==
  IF k = 0 THEN <<>> ELSE <<ExtensionRecord(k)>>

\* One record of each of the first n extensions, a record of any kind in
\* front of them and two behind.
ExtensionInputs ==
  { Extra(a) \o [k \in 1..n |-> ExtensionRecord(k)] \o Extra(b) \o Extra(c) :
      a \in {0, 2, DistinctExtensions + 1},
      b \in {0, 1, 2, DistinctExtensions, DistinctExtensions + 1, DistinctExtensions + 2},
      c \in {0, 2, DistinctExtensions + 1, DistinctExtensions + 2},
      n \in {DistinctExtensions - ExtensionsLeftOut, DistinctExtensions} }

InitExtensions ==
  /\ Constructed
  /\ pc = "scanned"
  /\ days = 7
  /\ options = [includeHidden |-> FALSE]
  /\ scanPaths = <<>>
  /\ rootIdx = 0
  /\ stack = <<>>
  /\ allFiles = <<>>
  /\ uniqueFiles \in ExtensionInputs
  /\ faults = 0
  /\ failures = {}
  /\ calls = {}
  /\ sizeArg = 0
  /\ mcp = ScanClient

NextExtensions ==
  \/ ClassifierLoadConfigOk
  \/ ClassifierLoadConfigFail
  \/ ClassifyFiles

SpecExtensions ==
  InitExtensions /\ [][NextExtensions]_vars

(***************************************************************************)
(* classifyByContent called on any record                                  *)
(***************************************************************************)

\* Names with a hint for each of the three hinted categories and without.
ContentNames ==
  { <<"r", "e", "a", "d", "m", "e">>, <<"S", "E", "T", "U", "P", ".", "b", "i", "n">>, <<"a", "p", "p", ".", "m", "i", "n", ".", "j", "s">>, <<"n", "o", "t", "e", "s">>,
    <<"a", ".", "p", "n", "g">> }

\* No MIME type, the default of getMimeType, and types that start with a
\* prefix of the table.
ContentMimeTypes ==
  { NoString, OctetStream, <<"t", "e", "x", "t", "/", "p", "l", "a", "i", "n">>, <<"i", "m", "a", "g", "e", "/", "p", "n", "g">>,
    <<"a", "p", "p", "l", "i", "c", "a", "t", "i", "o", "n", "/", "j", "s", "o", "n">> }

\* Records with every name, MIME type and combination of flags, and a media
\* record whose extension is not a string.
ContentInputs ==
  { [Record(name, ExtName(name), 10, <<"1">>) EXCEPT
       !.mimeType = mimeType, !.isExecutable = flags[1], !.isArchive = flags[2],
       !.isMedia = flags[3]] :
      name \in ContentNames, mimeType \in ContentMimeTypes,
      flags \in [1..3 -> BOOLEAN] }
  \cup { [Record(<<"o", "d", "d">>, NotAString, 7, <<"6">>) EXCEPT !.isMedia = TRUE] }

InitContent ==
  /\ Constructed
  /\ pc = "scanned"
  /\ days = 7
  /\ options = [includeHidden |-> FALSE]
  /\ scanPaths = <<>>
  /\ rootIdx = 0
  /\ stack = <<>>
  /\ allFiles = <<>>
  /\ \E file \in ContentInputs : uniqueFiles = <<file>>
  /\ faults = 0
  /\ failures = {}
  /\ calls = {}
  /\ sizeArg = 0
  /\ mcp = ScanClient

\* classifyByContent(file); result holds the record and what was returned,
\* or the status "threw".
ClassifyByContent ==
  /\ pc = "scanned"
  /\ LET file     == uniqueFiles[1]
         category == classifyByContent(classifierConfig, file)
     IN  result' = IF category = Threw THEN [status |-> "threw"]
                   ELSE [status |-> "content", file |-> file, category |-> category]
  /\ pc' = IF result'.status = "threw" THEN "failed" ELSE "hinted"
  /\ UNCHANGED <<scanVars, scannerConfig, scannerPromise, classifierConfig,
                 classifierLoad, sizeArg, mcp, sizeResult, age>>

NextContent ==
  \/ ClassifierLoadConfigOk
  \/ ClassifierLoadConfigFail
  \/ ClassifyByContent

SpecContent ==
  InitContent /\ [][NextContent]_vars

(***************************************************************************)
(* getRelativeAge called on any creation time                              *)
(***************************************************************************)

\* The oldest creation time tried, in days before the scan.
MaxAgeDays ==
  62

\* The latest creation time tried, in days after the scan: the clock that
\* stamped the file need not be the clock that new Date() reads.
MaxAheadDays ==
  2

\* Creation times, in ticks.
AgeInputs ==
  ((Now - MaxAgeDays) * TicksPerDay)..((Now + MaxAheadDays) * TicksPerDay)

InitAge ==
  /\ scannerConfig = NullConfig
  /\ scannerPromise = "pending"
  /\ classifierConfig = NullConfig
  /\ classifierLoad = "pending"
  /\ result = NoResult
  /\ sizeResult = "none"
  /\ pc = "age"
  /\ days = 7
  /\ options = [includeHidden |-> FALSE]
  /\ scanPaths = <<>>
  /\ rootIdx = 0
  /\ stack = <<>>
  /\ allFiles = <<>>
  /\ uniqueFiles = <<>>
  /\ faults = 0
  /\ failures = {}
  /\ calls = {}
  /\ sizeArg = 0
  /\ mcp = ScanClient
  /\ \E createdTime \in AgeInputs : age = [NoAge EXCEPT !.createdTime = createdTime]

GetRelativeAge ==
  /\ pc = "age"
  /\ age' = [age EXCEPT !.relativeAge = getRelativeAge(Now * TicksPerDay, age.createdTime)]
  /\ pc' = "aged"
  /\ UNCHANGED <<scanVars, scannerConfig, scannerPromise, classifierConfig, classifierLoad,
                 result, sizeArg, sizeResult, mcp>>

NextAge ==
  GetRelativeAge

SpecAge ==
  InitAge /\ [][NextAge]_vars

(***************************************************************************)
(* removeDuplicates called on any list of records                          *)
(***************************************************************************)

\* Records with and without a hash; one has as path the hash of another.
DedupInputs ==
  { Record(<<"a">>, NoString, 1, <<"h", "1">>),
    Record(<<"b">>, NoString, 2, <<"h", "1">>),
    Record(<<"a">>, NoString, 3, <<"h", "2">>),
    Record(<<"a">>, NoString, 4, NoString),
    Record(<<"b">>, NoString, 5, NoString),
    [Record(<<"c">>, NoString, 6, NoString) EXCEPT !.path = <<"h", "1">>] }

InitDedup ==
  /\ Constructed
  /\ pc = "dedup"
  /\ days = 7
  /\ options = [includeHidden |-> FALSE]
  /\ scanPaths = <<>>
  /\ rootIdx = 0
  /\ stack = <<>>
  /\ allFiles \in ListsUpTo(DedupInputs, MaxFiles)
  /\ uniqueFiles = <<>>
  /\ faults = 0
  /\ failures = {}
  /\ calls = {}
  /\ sizeArg = 0
  /\ mcp = ScanClient

RemoveDuplicates ==
  /\ pc = "dedup"
  /\ uniqueFiles' = removeDuplicates(allFiles)
  /\ pc' = "scanned"
  /\ UNCHANGED <<days, options, scanPaths, rootIdx, stack, allFiles, faults, failures, calls, scannerConfig,
                 scannerPromise, classifierConfig, classifierLoad, result, sizeArg, mcp,
                 sizeResult, age>>

NextDedup ==
  \/ RemoveDuplicates

SpecDedup ==
  InitDedup /\ [][NextDedup]_vars

(***************************************************************************)
(* getSizeCategory called on any size                                      *)
(***************************************************************************)

\* How far around each bucket boundary the sizes are taken.
SizeSpread ==
  4

SizeInputs ==
  {s \in UNION {(ShippedSizeCategories[i].min - SizeSpread)..(ShippedSizeCategories[i].min + SizeSpread) :
                  i \in 1..Len(ShippedSizeCategories)} : s >= 0}

InitSize ==
  /\ Constructed
  /\ pc = "size"
  /\ days = 7
  /\ options = [includeHidden |-> FALSE]
  /\ scanPaths = <<>>
  /\ rootIdx = 0
  /\ stack = <<>>
  /\ allFiles = <<>>
  /\ uniqueFiles = <<>>
  /\ faults = 0
  /\ failures = {}
  /\ calls = {}
  /\ sizeArg \in SizeInputs
  /\ mcp = ScanClient

GetSizeCategory ==
  /\ pc = "size"
  /\ sizeResult' = getSizeCategory(scannerConfig, sizeArg)
  /\ pc' = "sized"
  /\ UNCHANGED <<scanVars, scannerConfig, scannerPromise, classifierConfig, classifierLoad,
                 result, sizeArg, mcp, age>>

NextSize ==
  \/ ScannerLoadConfigOk
  \/ ScannerLoadConfigFail
  \/ GetSizeCategory

SpecSize ==
  InitSize /\ [][NextSize]_vars

(***************************************************************************)
(* The client called on its own: one listDirectory, getFileInfo or         *)
(* searchFiles call on any path, under any list of allowed directories     *)
(***************************************************************************)

PathR2 ==
  <<"/", "r", "2">>

\* allowedDirectories of mcp-config.json: /r; /r/sub and /c; /r written with
\* the user placeholder and a trailing "/"; none.
AllowedLists ==
  { <<PathR>>, <<PathSub, PathC>>, <<PathUser \o <<"/">>>>, <<>> }

\* The paths the calls are made on: directories inside and outside the
\* allowed ones, a path that leaves /r through "..", a file, and a path
\* where nothing is.
RequestPaths ==
  { PathR, PathSub, PathC, PathR2, PathNope,
    PathR \o <<"/", ".", ".", "/", "c">>,
    PathSub \o <<"/", "c", ".", "e", "x", "e">>,
    PathR2 \o <<"/", "k", ".", "t", "x", "t">> }

\* After connect(): the configuration is loaded and its placeholders are
\* expanded.
InitValidate ==
  /\ Constructed
  /\ pc = "client"
  /\ days = 7
  /\ options = [includeHidden |-> FALSE]
  /\ scanPaths = <<>>
  /\ rootIdx = 0
  /\ stack = <<>>
  /\ allFiles = <<>>
  /\ uniqueFiles = <<>>
  /\ faults = 0
  /\ failures = {}
  /\ calls = {}
  /\ sizeArg = 0
  /\ \E allowedDirectories \in AllowedLists, enablePathValidation \in BOOLEAN :
       mcp = Idle(expandEnvironmentVariables(
                    ClientConfig(allowedDirectories, enablePathValidation)))

ClientUnchanged ==
  UNCHANGED <<pc, scanVars, scannerConfig, scannerPromise, classifierConfig, classifierLoad,
              result, sizeArg, sizeResult, age>>

ListDirectory ==
  /\ pc = "client"
  /\ mcp.status = "idle"
  /\ \E directoryPath \in RequestPaths, includeHidden \in BOOLEAN :
       mcp' = [config |-> mcp.config,
               call   |-> [op |-> "listDirectory", path |-> directoryPath,
                           includeHidden |-> includeHidden]]
              @@ listDirectoryCall(mcp.config, directoryPath, includeHidden)
  /\ ClientUnchanged

GetFileInfo ==
  /\ pc = "client"
  /\ mcp.status = "idle"
  /\ \E filePath \in RequestPaths :
       mcp' = [config |-> mcp.config,
               call   |-> [op |-> "getFileInfo", path |-> filePath]]
              @@ getFileInfo(mcp.config, filePath)
  /\ ClientUnchanged

SearchFiles ==
  /\ pc = "client"
  /\ mcp.status = "idle"
  /\ \E searchPath \in RequestPaths, recursive \in BOOLEAN :
       mcp' = [config |-> mcp.config,
               call   |-> [op |-> "searchFiles", path |-> searchPath,
                           recursive |-> recursive]]
              @@ searchFiles(mcp.config, searchPath, recursive)
  /\ ClientUnchanged

NextValidate ==
  \/ ListDirectory
  \/ GetFileInfo
  \/ SearchFiles

SpecValidate ==
  InitValidate /\ [][NextValidate]_vars

(***************************************************************************)
(* Properties                                                              *)
(***************************************************************************)

RECURSIVE TotalLength(_, _)
TotalLength(categories, names) ==
  IF names = {} THEN 0
  ELSE LET c == CHOOSE c \in names : TRUE
       IN  Len(categories[c]) + TotalLength(categories, names \ {c})

\* The record as it was before classifyFiles set its category.
Unclassified(file) ==
  [file EXCEPT !.category = NoCategory]

\* The directory the scan path number r names, 0 when it does not exist.
RootDir(r) ==
  NodeAt(expandPath(scanPaths[r]))

Hidden(n) ==
  StartsWith(FS[n].name, <<".">>)

\* The directories of the tree that the shipped exclude list excludes.
ExcludedDirs ==
  {d \in NodeIds : FS[d].kind = "dir" /\ shouldExcludePath(ShippedConfig, NodePath(d))}

\* Node n is below directory dir, is not hidden and lies in no hidden and no
\* excluded directory on the way down from dir.
RECURSIVE WalkReaches(_, _)
WalkReaches(dir, n) ==
  /\ FS[n].parent # 0
  /\ ~Hidden(n)
  /\ FS[n].parent \notin ExcludedDirs
  /\ (FS[n].parent = dir \/ WalkReaches(dir, FS[n].parent))

\* C1: after classifyFiles returns, every input record is in exactly one
\* category's sequence (as often as it is in the input), each record of a
\* category's sequence carries that category's name in its category field,
\* and the lengths of the sequences add up to totalFiles, which is the
\* number of records passed in.
C1_EveryRecordInExactlyOneCategory ==
  result.status = "returned" =>
    LET categories == result.categories
        names == DOMAIN categories
        Places(c, file) == {i \in 1..Len(categories[c]) : Unclassified(categories[c][i]) = file}
    IN  /\ \A c \in names : \A i \in 1..Len(categories[c]) :
             categories[c][i].category = c
        /\ \A k \in 1..Len(uniqueFiles) :
             /\ Cardinality({c \in names : Places(c, uniqueFiles[k]) # {}}) = 1
             /\ \A c \in names :
                  Places(c, uniqueFiles[k]) # {} =>
                    Cardinality(Places(c, uniqueFiles[k]))
                      = Cardinality({j \in 1..Len(uniqueFiles) : uniqueFiles[j] = uniqueFiles[k]})
        /\ TotalLength(categories, names) = result.totalFiles
        /\ result.totalFiles = Len(uniqueFiles)

\* C1's case: three records were classified, one of them through the catch
\* block, and two categories are in use.
C1_Witness ==
  /\ result.status = "returned"
  /\ Len(uniqueFiles) >= 3
  /\ \E k \in 1..Len(uniqueFiles) : ~IsString(uniqueFiles[k].extension)
  /\ Len(result.categories["Documents"]) > 0
  /\ Len(result.categories[Other]) > 0

\* C2: every record scanRecentFiles returns is a file created at or after
\* the cutoff (now minus days) or modified at or after it, and carries the
\* file's own timestamps.
C2_ReturnedFilesAreRecent ==
  pc \in {"scanned", "classified", "failed"} =>
    \A i \in 1..Len(uniqueFiles) :
      LET file == FS[uniqueFiles[i].node]
      IN  /\ file.kind = "file"
          /\ uniqueFiles[i].createdTime = file.createdTime
          /\ uniqueFiles[i].modifiedTime = file.modifiedTime
          /\ file.createdTime >= Now - days \/ file.modifiedTime >= Now - days

\* C2's case: a scan returned a file that is recent by modification only and
\* one created exactly at the cutoff, in a tree that also holds an old file.
C2_Witness ==
  /\ pc = "scanned"
  /\ \E i \in 1..Len(uniqueFiles) :
       /\ uniqueFiles[i].createdTime < Now - days
       /\ uniqueFiles[i].modifiedTime >= Now - days
  /\ \E i \in 1..Len(uniqueFiles) :
       /\ uniqueFiles[i].createdTime = Now - days
       /\ uniqueFiles[i].modifiedTime < Now - days
  /\ \E n \in NodeIds :
       /\ FS[n].kind = "file"
       /\ WalkReaches(RootDir(1), n)
       /\ FS[n].createdTime < Now - days
       /\ FS[n].modifiedTime < Now - days

\* C3: a record without extension is classified as Other; a record with an
\* extension gets the first category, in the order of the configuration,
\* whose list holds the lower-cased extension, and Other when no list
\* holds it.
C3_FirstDeclaredCategoryWins ==
  result.status = "returned" =>
    \A c \in DOMAIN result.categories : \A i \in 1..Len(result.categories[c]) :
      LET file == result.categories[c][i]
          fileCategories == classifierConfig.fileCategories
          Lists(j) == ArrIncludes(fileCategories[j].extensions, ToLowerCase(file.extension))
      IN  IsString(file.extension) =>
            IF file.extension = NoString THEN c = Other
            ELSE \/ \E j \in 1..Len(fileCategories) :
                      /\ fileCategories[j].name = c
                      /\ Lists(j)
                      /\ \A k \in 1..(j - 1) : ~Lists(k)
                 \/ /\ c = Other
                    /\ \A j \in 1..Len(fileCategories) : ~Lists(j)

\* C3's case: .pdf is listed by Documents and by the later category Custom,
\* and a record with extension .PDF was classified as Documents, next to a
\* record without extension and one with an unlisted extension.
C3_Witness ==
  /\ result.status = "returned"
  /\ \E j \in 1..Len(classifierConfig.fileCategories) :
       classifierConfig.fileCategories[j].name = "Custom"
  /\ \E i \in 1..Len(result.categories["Documents"]) :
       result.categories["Documents"][i].extension = <<".", "P", "D", "F">>
  /\ \E i \in 1..Len(result.categories[Other]) :
       result.categories[Other][i].extension = NoString
  /\ \E i \in 1..Len(result.categories[Other]) :
       result.categories[Other][i].extension = <<".", "x", "y", "z">>

\* C4: classifyFiles never rejects, whatever the records and whatever the
\* state of the classifier, and a record whose lookup fails ends in Other.
C4_ClassifyFilesNeverRaises ==
  /\ pc # "failed"
  /\ result.status = "returned" =>
       \A k \in 1..Len(uniqueFiles) :
         ~IsString(uniqueFiles[k].extension) =>
           \E i \in 1..Len(result.categories[Other]) :
             result.categories[Other][i] = [uniqueFiles[k] EXCEPT !.category = Other]

\* C5: getSizeCategory(s) is the first bucket with min <= s < max, a max of
\* -1 standing for no upper limit.
C5_BucketsAreHalfOpen ==
  (pc = "sized" /\ sizeResult # Unknown) =>
    LET table == ShippedSizeCategories
        Holds(i) == sizeArg >= table[i].min /\ (table[i].max = -1 \/ sizeArg < table[i].max)
        hits == {i \in 1..Len(table) : Holds(i)}
    IN  /\ hits # {}
        /\ sizeResult = table[CHOOSE i \in hits : \A j \in hits : i <= j].name

\* C6: exactly one bucket of the table passes getSizeCategory's test for
\* the size.
C6_ExactlyOneBucketMatches ==
  (pc = "sized" /\ ~IsNull(scannerConfig)) =>
    Cardinality({i \in 1..Len(scannerConfig.sizeCategories) :
                   InBucket(sizeArg, scannerConfig.sizeCategories[i])}) = 1

\* C7: removeDuplicates returns, in input order, the first record of each
\* key (the hash, or the path when there is no hash), and no two returned
\* records share a key.
C7_FirstSeenPerKeyInOrder ==
  pc = "scanned" =>
    LET Key(file) == IF file.hash # NoString THEN file.hash ELSE file.path
        first == {i \in 1..Len(allFiles) :
                    \A j \in 1..(i - 1) : Key(allFiles[j]) # Key(allFiles[i])}
        Nth(k) == CHOOSE i \in first : Cardinality({j \in first : j <= i}) = k
    IN  /\ Len(uniqueFiles) = Cardinality(first)
        /\ \A k \in 1..Len(uniqueFiles) : uniqueFiles[k] = allFiles[Nth(k)]
        /\ \A a, b \in 1..Len(uniqueFiles) :
             a # b => Key(uniqueFiles[a]) # Key(uniqueFiles[b])

\* C7's case: the input held two different records with one key, the later
\* of which was dropped, and a record kept after it.
C7_Witness ==
  /\ pc = "scanned"
  /\ Len(allFiles) = 3
  /\ Len(uniqueFiles) = 2
  /\ allFiles[1] # allFiles[2]
  /\ DedupKey(allFiles[1]) = DedupKey(allFiles[2])
  /\ uniqueFiles = <<allFiles[1], allFiles[3]>>

\* C8: a file reached through more than one scan root is in the returned
\* list exactly once.
C8_OverlappingRootsReportedOnce ==
  pc = "scanned" =>
    \A n \in NodeIds :
      Cardinality({allFiles[i].root : i \in {k \in 1..Len(allFiles) : allFiles[k].node = n}}) > 1
        => Cardinality({i \in 1..Len(uniqueFiles) : uniqueFiles[i].node = n}) = 1

\* C9: two scanned records with different paths, equal size and equal
\* modification time are together in exactly one group of duplicateFiles.
C9_SameSizeAndTimeGrouped ==
  pc = "classified" =>
    LET groups == result.statistics.duplicateFiles
        Has(g, pathStr) == \E a \in 1..Len(groups[g]) : groups[g][a].path = pathStr
    IN  \A i, j \in 1..Len(allFiles) :
          ( /\ allFiles[i].path # allFiles[j].path
            /\ allFiles[i].size = allFiles[j].size
            /\ allFiles[i].modifiedTime = allFiles[j].modifiedTime )
          => Cardinality({g \in 1..Len(groups) :
                            Has(g, allFiles[i].path) /\ Has(g, allFiles[j].path)}) = 1

\* C10: scanDirectory is never called with a depth above maxDepth; every
\* record of a walk lies 0 to maxDepth directory levels below its scan root;
\* and a walk without failures returns every recent file that lies at most
\* maxDepth levels below the root outside hidden and excluded directories.
C10_DepthBound ==
  /\ \A c \in calls : c[3] <= maxDepth
  /\ \A i \in 1..Len(allFiles) :
       LevelBelow(RootDir(allFiles[i].root), allFiles[i].node) \in 0..maxDepth
  /\ (pc = "scanned" /\ faults = 0) =>
       \A r \in 1..Len(scanPaths) : \A n \in NodeIds :
         ( /\ RootDir(r) # 0
           /\ FS[n].kind = "file"
           /\ FS[n].createdTime >= Now - days \/ FS[n].modifiedTime >= Now - days
           /\ LevelBelow(RootDir(r), n) \in 0..maxDepth
           /\ WalkReaches(RootDir(r), n) )
         => \E i \in 1..Len(allFiles) : allFiles[i].node = n /\ allFiles[i].root = r

\* C10's case: the walk of /c, whose chain of directories is deeper than
\* maxDepth, called scanDirectory at depth maxDepth and returned the file at
\* level maxDepth and the file at level 0.
C10_Witness ==
  /\ pc = "scanned"
  /\ scanPaths = <<PathC>>
  /\ ChainDepth > maxDepth
  /\ <<1, ChainDir(maxDepth), maxDepth>> \in calls
  /\ \E i \in 1..Len(uniqueFiles) : uniqueFiles[i].node = ChainFile(maxDepth)
  /\ \E i \in 1..Len(uniqueFiles) : LevelBelow(ChainRoot, uniqueFiles[i].node) = 0
  /\ \A i \in 1..Len(uniqueFiles) : uniqueFiles[i].node # ChainFile(maxDepth + 1)

\* A recent file below directory dir that is hidden or lies in a hidden
\* directory below dir, outside excluded directories.
RECURSIVE BelowOutsideExcluded(_, _)
BelowOutsideExcluded(dir, n) ==
  /\ FS[n].parent # 0
  /\ FS[n].parent \notin ExcludedDirs
  /\ (FS[n].parent = dir \/ BelowOutsideExcluded(dir, FS[n].parent))

RECURSIVE HiddenOnTheWay(_, _)
HiddenOnTheWay(dir, n) ==
  /\ FS[n].parent # 0
  /\ (Hidden(n) \/ (FS[n].parent # dir /\ HiddenOnTheWay(dir, FS[n].parent)))

\* C11: a scan without the include-hidden option returns no hidden entry and
\* enters no hidden directory, and a scan run with the option (and without
\* failures) returns the hidden files that meet the cutoff.
C11_HiddenFlagControlsScan ==
  /\ ~options.includeHidden =>
       /\ \A i \in 1..Len(allFiles) : ~Hidden(allFiles[i].node)
       /\ \A c \in calls : c[3] > 0 => ~Hidden(c[2])
  /\ (options.includeHidden /\ pc = "scanned" /\ faults = 0) =>
       \A r \in 1..Len(scanPaths) : \A n \in NodeIds :
         ( /\ RootDir(r) # 0
           /\ FS[n].kind = "file"
           /\ FS[n].createdTime >= Now - days \/ FS[n].modifiedTime >= Now - days
           /\ LevelBelow(RootDir(r), n) \in 0..maxDepth
           /\ HiddenOnTheWay(RootDir(r), n)
           /\ BelowOutsideExcluded(RootDir(r), n) )
         => \E i \in 1..Len(uniqueFiles) : uniqueFiles[i].node = n

\* Entry e occurs in path p at offset k, letter case aside.
OccursAt(p, e, k) ==
  \A j \in 1..Len(e) : ToLowerChar(p[k + j]) = ToLowerChar(e[j])

\* The directories of the tree whose path contains an entry of the shipped
\* exclude list, letter case aside.
DirsHoldingExcludeEntry ==
  {d \in NodeIds :
     /\ FS[d].kind = "dir"
     /\ \E i \in 1..Len(ShippedExcludePaths) :
          LET e == PathNormalize(ShippedExcludePaths[i])
              p == PathNormalize(NodePath(d))
          IN  \E k \in 0..(Len(p) - Len(e)) : OccursAt(p, e, k)}

\* Node n lies in directory d or in one of its descendants.
RECURSIVE LiesIn(_, _)
LiesIn(d, n) ==
  FS[n].parent # 0 /\ (FS[n].parent = d \/ LiesIn(d, FS[n].parent))

\* C12: a scanDirectory call returns at once, without listing, exactly when
\* the directory's path holds an exclude entry (normalized, lower-cased); a
\* directory whose path holds one is never listed, and no record of the walk
\* lies in such a directory or in one of its descendants.
C12_ExcludedDirectoriesArePruned ==
  /\ \A f \in 1..Len(stack) :
       /\ stack[f].phase = "items" => stack[f].dir \notin DirsHoldingExcludeEntry
       /\ (stack[f].phase = "done" /\ faults = 0) => stack[f].dir \in DirsHoldingExcludeEntry
       /\ \A i \in 1..Len(stack[f].files) :
            \A d \in DirsHoldingExcludeEntry : ~LiesIn(d, stack[f].files[i].node)
  /\ \A i \in 1..Len(allFiles) :
       \A d \in DirsHoldingExcludeEntry : ~LiesIn(d, allFiles[i].node)

\* C12's case: the walk of /r called scanDirectory on /r/$RECYCLE.BIN, which
\* holds the recent file x.zip, and returned no record for it, while it
\* returned the records of the sibling directory /r/sub.
C12_Witness ==
  /\ pc = "scanned"
  /\ faults = 0
  /\ failures = {}
  /\ \E c \in calls : c[2] \in DirsHoldingExcludeEntry
                      /\ \E n \in NodeIds : /\ LiesIn(c[2], n)
                                            /\ FS[n].kind = "file"
                                            /\ FS[n].modifiedTime >= Now - days
  /\ \E i \in 1..Len(uniqueFiles) : FS[uniqueFiles[i].node].parent = NodeAt(PathSub)

\* The files a walk of scan path number r has to return when nothing fails:
\* the recent files at most maxDepth levels below the root, outside hidden
\* and excluded directories.  Empty when the root does not exist.
Qualifying(r) ==
  IF RootDir(r) = 0 THEN {}
  ELSE {n \in NodeIds :
          /\ FS[n].kind = "file"
          /\ FS[n].createdTime >= Now - days \/ FS[n].modifiedTime >= Now - days
          /\ LevelBelow(RootDir(r), n) \in 0..maxDepth
          /\ WalkReaches(RootDir(r), n)}

\* C13: with its configuration loaded scanRecentFiles does not reject,
\* whatever the root list, and when nothing fails its result holds a record
\* of every qualifying file of every root that exists.
C13_MissingRootsAreSkipped ==
  /\ scannerPromise = "fulfilled" => pc # "rejected"
  /\ (pc = "scanned" /\ faults = 0) =>
       \A r \in 1..Len(scanPaths) : \A n \in Qualifying(r) :
         \E i \in 1..Len(uniqueFiles) : uniqueFiles[i].node = n

\* Directory d's listing failed in the walk of scan path r.
ListingFailed(r, d) ==
  <<"list", r, d>> \in failures

\* C14: a scanDirectory call whose listing failed returns no record, so the
\* walk holds no record of the failed directory's subtree; a scan in which
\* only listings failed still returns, for each root, every qualifying file
\* outside the failed subtrees; and a failure never makes the scan reject.
C14_ListingFailureIsContained ==
  /\ \A f \in 1..Len(stack) : stack[f].phase = "done" => stack[f].files = <<>>
  /\ \A i \in 1..Len(allFiles) : \A d \in NodeIds :
       ListingFailed(allFiles[i].root, d) => ~LiesIn(d, allFiles[i].node)
  /\ failures # {} => pc # "rejected"
  /\ (pc = "scanned" /\ \A failure \in failures : failure[1] = "list") =>
       \A r \in 1..Len(scanPaths) : \A n \in Qualifying(r) :
         (\A d \in NodeIds : ListingFailed(r, d) => ~LiesIn(d, n))
         => \E i \in 1..Len(allFiles) : allFiles[i].node = n /\ allFiles[i].root = r

\* C14's case: in the scan of /r/sub and then /r the listing of /r/sub failed
\* once; the scan ended with the records of /r, found before and after the
\* failure, and with no record of the failed walk.
C14_Witness ==
  /\ pc = "scanned"
  /\ \E r \in 1..Len(scanPaths) :
       /\ failures = {<<"list", r, NodeAt(PathSub)>>}
       /\ Qualifying(r) # {}
       /\ \A i \in 1..Len(uniqueFiles) : uniqueFiles[i].root # r
       /\ \E q \in 1..Len(scanPaths) :
            /\ q > r
            /\ \E i \in 1..Len(uniqueFiles) :
                 uniqueFiles[i].root = q /\ FS[uniqueFiles[i].node].parent = RootDir(q)
            /\ \E i \in 1..Len(uniqueFiles) :
                 uniqueFiles[i].root = q /\ LiesIn(NodeAt(PathSub), uniqueFiles[i].node)

\* C15: a file whose stat failed during a walk, in listDirectory or in
\* calculateFileHash, has no record of that walk in the returned list, and
\* the other qualifying files of the walk have theirs.
C15_StatFailureSkipsTheFile ==
  pc = "scanned" =>
    \A failure \in failures :
      failure[1] \in {"stat", "hash"} =>
        /\ \A i \in 1..Len(uniqueFiles) :
             ~(uniqueFiles[i].root = failure[2] /\ uniqueFiles[i].node = failure[3])
        /\ failures = {failure} =>
             \A n \in Qualifying(failure[2]) :
               (n # failure[3] /\ ~LiesIn(failure[3], n))
               => \E i \in 1..Len(allFiles) :
                    allFiles[i].node = n /\ allFiles[i].root = failure[2]

\* C16: once the scanner's loadConfig has failed, scanRecentFiles goes from
\* its start to rejection and nowhere else; a rejected scan has called
\* scanDirectory for no directory and holds no record and no result.
C16_ConfigFailureAbortsBeforeTraversal ==
  /\ scannerPromise = "rejected" => pc \in {"start", "rejected"}
  /\ pc = "rejected" =>
       /\ scannerPromise = "rejected"
       /\ calls = {}
       /\ stack = <<>>
       /\ failures = {}
       /\ allFiles = <<>>
       /\ uniqueFiles = <<>>
       /\ result = NoResult

\* C16's case: loadConfig failed and scanRecentFiles, called with a root that
\* exists, rejected.
C16_Witness ==
  /\ pc = "rejected"
  /\ scannerPromise = "rejected"
  /\ IsNull(scannerConfig)
  /\ \E r \in 1..Len(scanPaths) : RootDir(r) # 0

\* The sum of the sizes of files[1..n].
RECURSIVE SizesUpTo(_, _)
SizesUpTo(files, n) ==
  IF n = 0 THEN 0 ELSE SizesUpTo(files, n - 1) + files[n].size

RECURSIVE CountsOf(_, _)
CountsOf(summary, names) ==
  IF names = {} THEN 0
  ELSE LET c == CHOOSE c \in names : TRUE
       IN  summary[c].count + CountsOf(summary, names \ {c})

\* q is num/den rounded to the nearest integer, a half going up.
IsRounded(q, num, den) ==
  2 * num - den < 2 * q * den /\ 2 * q * den <= 2 * num + den

\* C17: the summary of a returned result has an entry exactly for the
\* categories that hold a record; an entry's count is the number of the
\* category's records, its totalSize the sum of their sizes, its averageSize
\* totalSize/count rounded to the nearest integer and its percentage
\* count/totalFiles*100 rounded to two decimals (held in hundredths); the
\* counts add up to totalFiles.
C17_SummaryMatchesCategories ==
  result.status = "returned" =>
    /\ DOMAIN result.summary =
         {c \in DOMAIN result.categories : result.categories[c] # <<>>}
    /\ \A c \in DOMAIN result.summary :
         LET entry == result.summary[c]
             files == result.categories[c]
         IN  /\ entry.count = Len(files)
             /\ entry.totalSize = SizesUpTo(files, Len(files))
             /\ IsRounded(entry.averageSize, entry.totalSize, entry.count)
             /\ IsRounded(entry.percentage, entry.count * 10000, result.totalFiles)
    /\ CountsOf(result.summary, DOMAIN result.summary) = result.totalFiles

\* C17's case: a result with an empty and a non-empty category, in which one
\* category's average size was rounded up and one's percentage is not a whole
\* number of hundredths.
C17_Witness ==
  /\ result.status = "returned"
  /\ \E c \in DOMAIN result.categories : result.categories[c] = <<>>
  /\ \E c \in DOMAIN result.summary :
       /\ result.summary[c].count > 1
       /\ result.summary[c].averageSize * result.summary[c].count > result.summary[c].totalSize
  /\ \E c \in DOMAIN result.summary :
       result.summary[c].percentage * result.totalFiles # result.summary[c].count * 10000

\* The record of the scan's list that a record of the result was made from.
ScanPosition(file) ==
  CHOOSE k \in 1..Len(uniqueFiles) : uniqueFiles[k] = Unclassified(file)

\* top holds the first up to TopFilesCount records of the classified records
\* ordered by ascending key, records of equal key in the order of the scan's
\* list.
IsTopList(top, Key(_)) ==
  LET all == getAllFiles(result)
  IN  /\ Len(top) = (IF Len(all) < TopFilesCount THEN Len(all) ELSE TopFilesCount)
      /\ \A i \in 1..Len(top) : \E k \in 1..Len(all) : all[k] = top[i]
      /\ \A i, j \in 1..Len(top) :
           i < j => \/ Key(top[i]) < Key(top[j])
                    \/ /\ Key(top[i]) = Key(top[j])
                       /\ ScanPosition(top[i]) < ScanPosition(top[j])
      /\ \A k \in 1..Len(all) :
           (\A i \in 1..Len(top) : top[i] # all[k]) =>
             \A i \in 1..Len(top) :
               \/ Key(top[i]) < Key(all[k])
               \/ /\ Key(top[i]) = Key(all[k])
                  /\ ScanPosition(top[i]) < ScanPosition(all[k])

NegatedSize(file) ==
  0 - file.size

CreatedTime(file) ==
  file.createdTime

NegatedCreatedTime(file) ==
  0 - file.createdTime

\* C18: in a returned result largestFiles, oldestFiles and newestFiles are
\* the top 10 of the classified records by descending size, ascending
\* createdTime and descending createdTime, records of equal key in the order
\* of the list passed to classifyFiles.
C18_TopListsInScanOrder ==
  result.status = "returned" =>
    /\ IsTopList(result.statistics.largestFiles, NegatedSize)
    /\ IsTopList(result.statistics.oldestFiles, CreatedTime)
    /\ IsTopList(result.statistics.newestFiles, NegatedCreatedTime)

\* The depth limit the user guide states: at most 3 levels of subdirectories.
DocumentedMaxDepth ==
  3

\* C19: no record of a scan lies more than 3 directory levels below its scan
\* root, and scanDirectory is not called deeper than that.
C19_DefaultDepthIsThree ==
  /\ \A c \in calls : c[3] <= DocumentedMaxDepth
  /\ \A i \in 1..Len(uniqueFiles) :
       LevelBelow(RootDir(uniqueFiles[i].root), uniqueFiles[i].node) <= DocumentedMaxDepth

\* The path p names the directory a or something below it.
InsideDirectory(p, a) ==
  LET target  == ResolveSegments(Segments(p, <<>>), <<>>)
      allowed == ResolveSegments(Segments(a, <<>>), <<>>)
  IN  Len(allowed) <= Len(target) /\ \A k \in 1..Len(allowed) : target[k] = allowed[k]

InsideAllowed(p) ==
  \E i \in 1..Len(mcp.config.allowedDirectories) :
    InsideDirectory(p, mcp.config.allowedDirectories[i])

\* C20: with path validation enabled, a listDirectory, searchFiles or
\* getFileInfo call on a path outside every allowed directory is rejected,
\* and no call lists a directory or returns the information of an entry
\* outside the allowed directories.
C20_ReadsOutsideAllowedAreRejected ==
  (mcp.config.security.enablePathValidation /\ mcp.status # "idle") =>
    /\ ~InsideAllowed(mcp.call.path) => mcp.status = "rejected"
    /\ \A d \in mcp.listed : InsideAllowed(NodePath(d))
    /\ \A n \in mcp.read : InsideAllowed(NodePath(n))

(***************************************************************************)
(* C21..C30                                                                *)
(***************************************************************************)

\* The records of a returned result, all categories together.
Classified ==
  getAllFiles(result)

\* Two records that agree on the extension and on nothing else that a
\* classifier could look at.
SameExtensionOnly(a, b) ==
  /\ a.extension = b.extension
  /\ a.name # b.name
  /\ a.mimeType # b.mimeType
  /\ a.isExecutable # b.isExecutable

\* C21: the category classifyFiles assigns depends on the record's extension
\* and the configuration only: whenever a result is returned, two records
\* with the same extension are in the same category, whatever their names,
\* MIME types and flags; and classifying the same list a second time under
\* the same configuration gives the same result, record by record and in the
\* same order.
C21_CategoryDependsOnExtensionOnly ==
  /\ [](result.status = "returned" =>
          \A i, j \in 1..Len(Classified) :
            Classified[i].extension = Classified[j].extension
              => Classified[i].category = Classified[j].category)
  /\ [][ClassifyFilesAgain => result' = result]_vars

C21_Witness ==
  /\ pc = "reclassified"
  /\ \E i, j \in 1..Len(Classified) :
       /\ SameExtensionOnly(Classified[i], Classified[j])
       /\ Classified[i].category = "Documents"
       /\ Classified[j].category = "Documents"

\* What a depth-first walk of scan path number root brings back from
\* directory dir at the given depth, as the list of nodes in the order of
\* the listings: nothing from an excluded directory or one whose listing
\* failed; entries whose stat failed and hidden entries are passed over;
\* a recent file stands for itself and a directory for its own walk, which
\* comes before the entries that follow it.
RECURSIVE DepthFirst(_, _, _), DepthFirstEntries(_, _, _)
DepthFirst(root, dir, depth) ==
  IF dir \in ExcludedDirs \/ <<"list", root, dir>> \in failures
  THEN <<>>
  ELSE DepthFirstEntries(root, ReadDir(dir), depth)

DepthFirstEntries(root, entries, depth) ==
  IF entries = <<>> THEN <<>>
  ELSE LET n    == Head(entries)
           rest == DepthFirstEntries(root, Tail(entries), depth)
       IN  IF <<"stat", root, n>> \in failures \/ Hidden(n) THEN rest
           ELSE IF FS[n].kind = "file"
           THEN (IF FS[n].createdTime >= CutoffDate \/ FS[n].modifiedTime >= CutoffDate
                 THEN <<<<root, n>>>> ELSE <<>>) \o rest
           ELSE (IF depth < maxDepth THEN DepthFirst(root, n, depth + 1) ELSE <<>>) \o rest

\* The depth-first walks of the first k scan paths, one after the other.
RECURSIVE WalksInOrder(_)
WalksInOrder(k) ==
  IF k = 0 THEN <<>>
  ELSE WalksInOrder(k - 1) \o
         (IF RootDir(k) = 0 THEN <<>> ELSE DepthFirst(k, RootDir(k), 0))

\* C22: the scan paths are walked one after the other and each walk is one
\* chain of nested calls: while a walk is running its calls form a chain
\* from the scan path down, only the innermost is listing or has yet to
\* list, no directory of a later scan path has been visited, and allFiles
\* holds records of earlier scan paths only; between two walks and at the
\* end allFiles is the depth-first walks of the finished scan paths, laid
\* end to end in the order of the scan paths.
C22_RootsInSequenceDepthFirst ==
  /\ \A c \in calls : c[1] <= rootIdx
  /\ \A i \in 1..Len(allFiles) : allFiles[i].root < rootIdx
  /\ stack # <<>> =>
       /\ pc = "walk"
       /\ stack[1].dir = RootDir(rootIdx)
       /\ \A f \in 1..Len(stack) :
            /\ stack[f].depth = f - 1
            /\ f < Len(stack) => stack[f].phase = "items"
            /\ f > 1 => FS[stack[f].dir].parent = stack[f - 1].dir
            /\ \A i \in 1..Len(stack[f].files) : stack[f].files[i].root = rootIdx
  /\ pc \in {"roots", "scanned", "classified", "failed"} =>
       [i \in 1..Len(allFiles) |-> <<allFiles[i].root, allFiles[i].node>>]
         = WalksInOrder(rootIdx - 1)

\* Two scan paths walked, the first one with a file in front of a
\* subdirectory that holds files too.
C22_Witness ==
  /\ pc = "scanned"
  /\ Len(scanPaths) = 2
  /\ \E i, j, k \in 1..Len(allFiles) :
       /\ i < j /\ j < k
       /\ allFiles[i].root = 1 /\ allFiles[j].root = 1 /\ allFiles[k].root = 2
       /\ FS[allFiles[i].node].parent = RootDir(1)
       /\ FS[allFiles[j].node].parent # RootDir(1)

\* Math.floor((now - createdTime) / one day) of the call made on its own.
AgeInDays ==
  (Now * TicksPerDay - age.createdTime) \div TicksPerDay

\* C23: getRelativeAge labels a creation time d whole days back (d the
\* floor of the difference in days) "today" for d = 0, "yesterday" for
\* d = 1, "d days ago" for 2 <= d <= 7, "floor(d / 7) weeks ago" for
\* 8 <= d <= 30 and "floor(d / 30) months ago" for d > 30, and every label
\* is one of these.
C23_RelativeAgeLabels ==
  pc = "aged" =>
    LET d == AgeInDays
    IN  \/ d = 0 /\ age.relativeAge = Today
        \/ d = 1 /\ age.relativeAge = Yesterday
        \/ d >= 2 /\ d <= 7
             /\ age.relativeAge = [number |-> Decimal(d), unit |-> "DaysAgo"]
        \/ d >= 8 /\ d <= 30
             /\ age.relativeAge = [number |-> Decimal(d \div 7), unit |-> "WeeksAgo"]
        \/ d > 30
             /\ age.relativeAge = [number |-> Decimal(d \div 30), unit |-> "MonthsAgo"]

\* The extension table of a returned result.
ExtensionStats ==
  result.statistics.extensionStats

\* The classified records that count for an extension key.
RecordsOf(ext) ==
  SelectSeq(Classified, LAMBDA file :
    (IF file.extension = NoString THEN NoExtensionLabel ELSE file.extension) = ext)

\* The position at which the key is first seen among the classified records.
FirstSeen(ext) ==
  CHOOSE i \in 1..Len(Classified) :
    /\ RecordsOf(ext)[1] = Classified[i]
    /\ \A j \in 1..(i - 1) : Classified[j] # Classified[i]

\* The extension keys of the classified records.
KeysPresent ==
  {IF Classified[i].extension = NoString THEN NoExtensionLabel ELSE Classified[i].extension :
     i \in 1..Len(Classified)}

\* Key a goes before key b: it has more records, or as many and is seen first.
GoesBefore(a, b) ==
  \/ Len(RecordsOf(a)) > Len(RecordsOf(b))
  \/ Len(RecordsOf(a)) = Len(RecordsOf(b)) /\ FirstSeen(a) < FirstSeen(b)

\* C24: extensionStats lists at most 20 extensions, in non-increasing count
\* with ties in the order the extensions are first seen, and they are the
\* first 20 in that order (hence those with the highest counts); the count
\* and totalSize of an entry are the number and the summed size of the
\* records with that extension; records without an extension are counted
\* under the one no-extension label.
C24_ExtensionStatsTopTwenty ==
  result.status = "returned" =>
    /\ Len(ExtensionStats) <= 20
    /\ Len(ExtensionStats) = (IF Cardinality(KeysPresent) < 20
                              THEN Cardinality(KeysPresent) ELSE 20)
    /\ \A i \in 1..Len(ExtensionStats) :
         LET entry == ExtensionStats[i]
         IN  /\ entry.ext \in KeysPresent
             /\ entry.ext # NoString
             /\ entry.count = Len(RecordsOf(entry.ext))
             /\ entry.totalSize = SumSizes(RecordsOf(entry.ext))
             /\ \A j \in (i + 1)..Len(ExtensionStats) :
                  /\ entry.count >= ExtensionStats[j].count
                  /\ GoesBefore(entry.ext, ExtensionStats[j].ext)
             /\ \A ext \in KeysPresent :
                  (\A j \in 1..Len(ExtensionStats) : ExtensionStats[j].ext # ext)
                    => GoesBefore(entry.ext, ext)

\* More than 20 extensions are present; the table is cut, starts with an
\* extension that has several records and is not the first one seen, holds
\* extensions with equal counts, and holds the no-extension label.
C24_Witness ==
  /\ result.status = "returned"
  /\ Cardinality(KeysPresent) > 20
  /\ Len(ExtensionStats) = 20
  /\ ExtensionStats[1].count >= 2
  /\ FirstSeen(ExtensionStats[1].ext) > 1
  /\ ExtensionStats[2].count = ExtensionStats[3].count
  /\ \E i \in 1..20 : ExtensionStats[i].ext = NoExtensionLabel /\ ExtensionStats[i].count = 2

\* C25: classifyByContent asks the flags first, then the table of MIME
\* prefixes, then the words in the file name, and only then answers with
\* the catch-all: for a record without a flag whose MIME type starts with
\* none of the prefixes, the file name decides ("readme" gives Documents,
\* "setup" gives Programs).
C25_FileNameDecidesAfterMime ==
  (/\ pc = "hinted"
   /\ ~result.file.isExecutable /\ ~result.file.isArchive /\ ~result.file.isMedia
   /\ MimePrefixHits(result.file.mimeType) = {})
    => result.category = classifyByFileName(result.file.name)

\* C26: in the main flow the classifier's configuration has finished loading
\* before classifyFiles reads it, whatever the order in which the pending
\* operations complete: classifyFiles is never called while the
\* configuration is unset.
C26_ConfigLoadedBeforeClassify ==
  [][ClassifyFiles => (classifierLoad = "fulfilled" /\ ~IsNull(classifierConfig))]_vars

\* The sum of summary[c].totalSize over the categories of the list that have
\* an entry in the summary.
RECURSIVE SummaryTotalSize(_)
SummaryTotalSize(order) ==
  IF order = <<>> THEN 0
  ELSE (IF Head(order) \in DOMAIN result.summary
        THEN result.summary[Head(order)].totalSize ELSE 0)
       + SummaryTotalSize(Tail(order))

\* C27: a result returned by classifyFiles has as totalSize the sum of the
\* sizes of all records in its categories, which is also the sum of the
\* totalSize of the summary entries; records put in the catch-all category
\* by the catch block of the loop count as well.
C27_TotalSizeIsSumOfRecords ==
  result.status = "returned" =>
    /\ result.totalSize = SumSizes(Classified)
    /\ result.totalSize = SummaryTotalSize(result.categoryOrder)

\* C28: the list scanRecentFiles returns holds one record per fingerprint,
\* so the result classifyFiles makes of it in the main flow reports no
\* group of duplicates.
C28_NoDuplicateGroupsAfterScan ==
  pc = "classified" => result.statistics.duplicateFiles = <<>>

\* A classified scan that met the same fingerprint more than once.
C28_Witness ==
  /\ pc = "classified"
  /\ Len(uniqueFiles) > 1
  /\ \E i, j \in 1..Len(allFiles) : i # j /\ allFiles[i].hash = allFiles[j].hash
  /\ result.statistics.duplicateFiles = <<>>

\* C29: the fingerprint tells files with different paths apart: two records
\* of a scan (whose hashes were computed, not drawn at random) that differ
\* in their path differ in their hash, and both are in the list that
\* removeDuplicates returns.
C29_DifferentPathsBothSurvive ==
  (pc = "scanned" /\ faults = 0) =>
    \A i, j \in 1..Len(allFiles) :
      allFiles[i].path # allFiles[j].path =>
        /\ allFiles[i].hash # allFiles[j].hash
        /\ \E k \in 1..Len(uniqueFiles) : uniqueFiles[k].path = allFiles[i].path
        /\ \E k \in 1..Len(uniqueFiles) : uniqueFiles[k].path = allFiles[j].path

\* C30: scanRecentFiles comes to an end on every directory structure, one
\* with a cycle included (an entry that resolves to an ancestor of the
\* directory it is in): the call settles, and once the walk of the scan
\* paths has begun it returns its list.  The recursion through the cycle is
\* cut at depth 10.
C30_ScanTerminatesOnCycles ==
  /\ <>(pc \notin {"start", "roots", "walk"})
  /\ (pc \in {"roots", "walk"}) ~> (pc = "scanned")
  /\ [](Len(stack) <= maxDepth + 1)

\* A scan that went round the cycle until the depth cut and returned: the
\* link was entered at depth 10 and the file of the cycle was collected once
\* for every depth from 0 to 10.
C30_Witness ==
  /\ pc = "scanned"
  /\ <<Len(scanPaths), CycleLink, maxDepth>> \in calls
  /\ \A depth \in 0..maxDepth :
       \E i \in 1..Len(uniqueFiles) :
         /\ uniqueFiles[i].node = CycleRoot + 1
         /\ Len(uniqueFiles[i].path) = Len(PathW) + 2 * depth + 6

====
